---------------------------- MODULE Spec2Model ----------------------------
(***************************************************************************)
(* A model of the LLM news bot (duangtian/LLM_news):                       *)
(*   - the filter / rank / quota selection of pipeline/filter_rank.py,     *)
(*   - the seen ledger of storage/db.py,                                   *)
(*   - LLMNewsBot.run_daily_pipeline and store_papers of app.py, with the  *)
(*     delivery facade of delivery/discord_post.py.                        *)
(* Scores are integers: a component score is in thousandths (0..1000) and  *)
(* the weighted relevance score in ten-thousandths (0..10000).             *)
(***************************************************************************)
EXTENDS Integers, Sequences, FiniteSets, TLC

\* ------------------------------------------------------------------ bounds
MaxLen == 4        \* longest input list handed to process_papers
MaxCap == 2        \* largest configured MAX_PAPERS_PER_DAY
MaxFetch == 2      \* longest list one fetch step returns
MaxRuns == 2       \* pipeline runs in one behaviour
NumSeeds == 2      \* distinct per-process string-hash seeds
NumIds == 2        \* distinct identifiers used against the ledger
MaxTime == 3       \* clock ticks (days) of the ledger specification
MaxMarks == 3      \* mark_as_seen calls of the ledger specification
MaxEmbeds == 11    \* longest embed list handed to the webhook transport
MaxBotEmbeds == 2  \* longest embed list handed to the bot transport
MaxClock == 5      \* latest time (in ticks) at which a transport call starts
RecursionLimit == 3 \* nested _post_embed_batch calls the interpreter allows
MaxPerSource == 1  \* most papers one fetcher returns
MaxLines == 2      \* most lines in a provider's answer
MaxPosts == 1      \* most rows in the posts table
MaxDays == 1       \* largest days argument of cleanup_database
MaxItems == 1      \* most rows in the post_items table
MaxCleanupTime == 1 \* last day of the clock in the maintenance runs
MaxStored == 1     \* most Paper rows stored before a cleanup
MaxFilterLen == 2  \* longest list given to filter_papers alone
MaxSources == 2    \* most source tags scored in one batch
MaxScholar == 2    \* most search results and largest max_results

\* ------------------------------------------------------- program constants
MIN_NEWS_QUOTA == 2          \* config.get('MIN_NEWS_QUOTA', 2)
SUMMARY_MIN_LENGTH == 50     \* config.get('SUMMARY_MIN_LENGTH', 50)
MIN_TITLE_LENGTH == 10       \* len(paper.title) < 10
DATE_CUTOFF_DAYS == 30       \* timedelta(days=30)
ARXIV_PER_REQUEST == 100     \* min(max_results, 100)
ARXIV_SAFETY_LIMIT == 500    \* start < 500
NUM_COMPONENTS == 5          \* components built by initialize_components

NewsSources == {"tech_news", "nasa"}

\* An Optional value: << >> is None, << v >> is the value v.
None == << >>
Some(v) == << v >>
IsNone(o) == o = << >>

\* str.lower() on the spellings the model uses; any other string is
\* already lower case.
Lower(s) ==
    CASE s = "arXiv" -> "arxiv"
      [] s = "ArXiv" -> "arxiv"
      [] s = "Crossref" -> "crossref"
      [] s = "CrossRef" -> "crossref"
      [] s = "bioRxiv" -> "biorxiv"
      [] s = "medRxiv" -> "medrxiv"
      [] s = "MedRxiv" -> "medrxiv"
      [] OTHER -> s

Min(a, b) == IF a <= b THEN a ELSE b
Max(a, b) == IF a >= b THEN a ELSE b

TakeAll(s, n) == s

\* s[:n] for n >= 0
Take(s, n) == SubSeq(s, 1, Min(n, Len(s)))

Range(s) == {s[i] : i \in 1..Len(s)}

\* ------------------------------------------------------------------ papers
\* A PaperCreate, by the features the pipeline reads:
\*   title         the title text (a number stands for one text)
\*   title_len     len(title)
\*   abstract_len  len(abstract); 0 is a missing abstract
\*   n_authors     len(authors)
\*   doi, arxiv_id Optional identifiers
\*   source        the source tag
\*   spam          a spam pattern matches title+abstract, or the title is
\*                 mostly upper case
\*   excluded      an exclude keyword occurs in title+abstract
\*   kw            occurrences of the include keyword in title+abstract
\*   kw_head       occurrences within the first 200 characters
\*   categories    the category strings
\*   tags_boost    some tag contains a boost term
\*   published     Optional age in days of published_at
\*   tz_aware      published_at carries a timezone
MkPaper(title, source, kw, spam, doi, arxiv_id) ==
    [title |-> title, title_len |-> 20, abstract_len |-> 100, n_authors |-> 1,
     doi |-> doi, arxiv_id |-> arxiv_id, source |-> source, spam |-> spam,
     excluded |-> FALSE, kw |-> kw, kw_head |-> kw, categories |-> << >>,
     tags_boost |-> FALSE, published |-> Some(0), tz_aware |-> FALSE]

\* The configuration the model runs under: one include keyword, and the
\* arXiv categories cs.AI and cs.LG.
IncludeKeywords == 1
AllowedCategories == {"cs.ai", "cs.lg"}

\* ------------------------------------------------------------ ContentFilter
IsSpam(p) == p.spam

PassesQualityCheck(p) ==
    /\ p.title_len >= MIN_TITLE_LENGTH
    /\ p.abstract_len >= SUMMARY_MIN_LENGTH
    /\ p.n_authors > 0
    /\ ~IsSpam(p)

PassesKeywordFilter(p) ==
    IF p.excluded THEN FALSE
    ELSE IF IncludeKeywords > 0 THEN p.kw > 0
    ELSE TRUE

PassesCategoryFilter(p) ==
    IF p.source \in NewsSources THEN TRUE
    ELSE IF AllowedCategories = {} THEN TRUE
    ELSE IF p.categories = << >> THEN TRUE
    ELSE \E i \in 1..Len(p.categories) : Lower(p.categories[i]) \in AllowedCategories

\* datetime.utcnow() is naive: comparing it with an aware published_at
\* raises TypeError.
DateCompareRaises(p) == ~IsNone(p.published) /\ p.tz_aware

PassesDateFilter(p) ==
    IF IsNone(p.published) THEN TRUE
    ELSE p.published[1] <= DATE_CUTOFF_DAYS

\* The checks run in this order and stop at the first that fails, so the
\* date comparison raises only for a paper that passed the other three.
ShouldIncludeRaises(p) ==
    PassesQualityCheck(p) /\ PassesKeywordFilter(p) /\ PassesCategoryFilter(p)
        /\ DateCompareRaises(p)

ShouldIncludePaper(p) ==
    PassesQualityCheck(p) /\ PassesKeywordFilter(p) /\ PassesCategoryFilter(p)
        /\ PassesDateFilter(p)

\* filter_papers: a paper whose check raises is logged and skipped.
FilterPapers(papers) ==
    SelectSeq(papers, LAMBDA p : ~ShouldIncludeRaises(p) /\ ShouldIncludePaper(p))

\* --------------------------------------------------------------- PaperRanker
KeywordScore(p) ==
    IF IncludeKeywords = 0 THEN 500
    ELSE (IF p.kw > 0 THEN Min(1000, p.kw * 200 + p.kw_head * 300) ELSE 0)
             \div IncludeKeywords

RecencyScore(p) ==
    IF IsNone(p.published) THEN 300
    ELSE LET d == p.published[1] IN
         IF d <= 1 THEN 1000
         ELSE IF d <= 7 THEN 800
         ELSE IF d <= 30 THEN 600
         ELSE IF d <= 90 THEN 400
         ELSE 200

QualityScore(p) ==
    Min(1000, 500 + (IF p.abstract_len > 200 THEN 200 ELSE 0)
                  + (IF p.n_authors > 1 THEN Min(200, p.n_authors * 50) ELSE 0)
                  + (IF IsNone(p.doi) THEN 0 ELSE 100))

\* source_weights.get(source.lower(), 0.5): the keys are compared as written.
SourceScore(source) ==
    LET s == Lower(source) IN
    CASE s = "arxiv" -> 800
      [] s = "crossref" -> 600
      [] s = "biorxiv" -> 700
      [] s = "medRxiv" -> 700
      [] OTHER -> 500

CategoryScore(p) ==
    IF p.categories = << >> THEN 500
    ELSE IF \E i \in 1..Len(p.categories) :
              Lower(p.categories[i]) \in {"cs.ai", "cs.lg", "cs.cl", "cs.cv", "stat.ml"}
         THEN 1000
    ELSE 600

CalculateRelevanceScore(p) ==
    LET src == IF p.source \in NewsSources
               THEN Min(1000, SourceScore(p.source) + 150)
               ELSE SourceScore(p.source)
        base == 4 * KeywordScore(p) + 2 * RecencyScore(p) + 2 * QualityScore(p)
                    + src + CategoryScore(p)
        boosted == IF p.tags_boost THEN Min(10000, base + 1000) ELSE base
    IN  Max(0, Min(10000, boosted))

\* rank_papers scores a paper 0.0 when its scoring raises.
ScoreRaises(p) == DateCompareRaises(p)

ScoreOf(p) == IF ScoreRaises(p) THEN 0 ELSE CalculateRelevanceScore(p)

\* list.sort(key=score, reverse=True) is stable: an element goes after
\* every element whose score is at least its own.
RECURSIVE InsertByScore(_, _)
InsertByScore(x, sorted) ==
    IF sorted = << >> THEN << x >>
    ELSE IF Head(sorted)[2] >= x[2] THEN << Head(sorted) >> \o InsertByScore(x, Tail(sorted))
    ELSE << x >> \o sorted

RECURSIVE SortByScoreFrom(_, _)
SortByScoreFrom(pairs, acc) ==
    IF pairs = << >> THEN acc
    ELSE SortByScoreFrom(Tail(pairs), InsertByScore(Head(pairs), acc))

UnsortedByScore(pairs) == pairs

SortByScore(pairs) == SortByScoreFrom(pairs, << >>)

RankPapers(papers) ==
    SortByScore([i \in 1..Len(papers) |-> << papers[i], ScoreOf(papers[i]) >>])

\* -------------------------------------------------------- FilterRankPipeline
PapersOf(pairs) == [i \in 1..Len(pairs) |-> pairs[i][1]]

IsNews(p) == p.source \in NewsSources

\* The loop that collects additional news items: an item not yet selected
\* is appended, and the loop breaks once `needed` were collected.
RECURSIVE ExtraNews(_, _, _, _)
ExtraNews(news_items, selected, needed, extra) ==
    IF news_items = << >> THEN extra
    ELSE LET ps == Head(news_items)
             extra2 == IF ps[1] \notin selected THEN Append(extra, ps) ELSE extra
         IN  IF Len(extra2) >= needed THEN extra2
             ELSE ExtraNews(Tail(news_items), selected, needed, extra2)

TopScored(papers, cap) ==
    LET ranked == RankPapers(FilterPapers(papers))
        top == Take(ranked, cap)
        news_items == SelectSeq(ranked, LAMBDA ps : IsNews(ps[1]))
        current_news == SelectSeq(PapersOf(top), IsNews)
    IN  IF Len(current_news) < MIN_NEWS_QUOTA /\ news_items # << >>
        THEN LET needed == MIN_NEWS_QUOTA - Len(current_news)
                 extra == ExtraNews(news_items, Range(PapersOf(top)), needed, << >>)
             IN  IF extra # << >> THEN Take(SortByScore(top \o extra), cap) ELSE top
        ELSE top

ProcessPapers(papers, cap) ==
    IF FilterPapers(papers) = << >> THEN << >> ELSE PapersOf(TopScored(papers, cap))


\* ================================================================ variables
VARIABLES
    max_papers,     \* FilterRankPipeline.max_papers (MAX_PAPERS_PER_DAY)
    dry_run,        \* DiscordPoster.dry_run
    rk_pc,          \* process_papers check: "input" or "done"
    rk_papers,      \* process_papers check: the input list
    rk_result,      \* process_papers check: the returned list
    seen_rows,      \* table seen_papers
    paper_rows,     \* table papers
    now,            \* the clock, in days
    led_marks,      \* ledger check: mark_as_seen calls made
    led_ret,        \* ledger check: the last repository call and its outcome
    pc,             \* run_daily_pipeline: the step about to execute
    runs,           \* run_daily_pipeline calls started
    comp_init,      \* how many components of the bot are constructed
    hash_seed,      \* the process's string-hash seed (PYTHONHASHSEED)
    papers,         \* run local: the fetched list
    normalized,     \* run local: normalized_papers
    top_papers,     \* run local: top_papers
    sum_raised,     \* run local: indices of top_papers whose summarize raised
    pws,            \* run local: papers_with_summaries (the papers)
    posted,         \* the lists handed to DiscordPoster.post_papers this run
    calls,          \* calls made by this run, per collaborator
    store_fail,     \* where store_papers hit a storage error this run (0: nowhere)
    seen_at_start,  \* identifiers in the ledger when this run started
    result          \* what the run returned

cfg_vars == << max_papers, dry_run >>
rk_vars == << rk_pc, rk_papers, rk_result >>
db_vars == << seen_rows, paper_rows, now >>
led_vars == << led_marks, led_ret >>
run_vars == << pc, runs, comp_init, hash_seed, papers, normalized, top_papers,
               sum_raised, pws, posted, calls, store_fail, seen_at_start, result >>

\* The delivery facade, observed across runs and direct calls.
VARIABLES
    transport_used, \* whether DiscordPoster ever called self.poster (the transport)
    facade_ret      \* the last direct call of a DiscordPoster method and its result

fc_vars == << transport_used, facade_ret >>

\* The two transports behind the facade.
VARIABLES
    method,         \* DiscordPoster.method: "webhook" or "bot"
    wh_pc,          \* webhook post_embeds: "idle", or "send" inside the batch loop
    wh_clock,       \* time.time(), in ticks of half a second
    wh_last,        \* DiscordWebhookPoster.last_request_time
    wh_embeds,      \* post_embeds: the embeds argument
    wh_i,           \* post_embeds: the loop index i
    wh_depth,       \* _post_embed_batch: recursive calls open for this batch
    wh_sends,       \* HTTP requests made for this batch
    wh_results,     \* post_embeds: results (the success flag of each batch)
    wh_sent,        \* the batches posted so far by this call, at their first send
    wh_prev_req,    \* when the last outbound HTTP request was sent
    wh_min_gap,     \* the smallest time between two consecutive requests
    wh_ret,         \* what the last post_embeds call returned
    bot_client,     \* discord.Client: "new", "open" or "closed"
    bot_ready,      \* DiscordBotPoster.is_ready
    bot_ret         \* what the last post_embeds_async call did

wh_vars == << wh_pc, wh_clock, wh_last, wh_embeds, wh_i, wh_depth, wh_sends,
              wh_results, wh_sent, wh_prev_req, wh_min_gap, wh_ret >>
bot_vars == << bot_client, bot_ready, bot_ret >>
tr_vars == << method, wh_vars, bot_vars >>

\* The fetcher manager.
VARIABLES
    fm_pc,          \* "new", "idle", "loop" (inside fetch_all_papers) or "returned"
    fm_fetchers,    \* FetcherManager.fetchers: the enabled names, in dict order
    fm_idx,         \* fetch_all_papers: position of the loop in fm_fetchers
    fm_results,     \* what each fetch_papers call did, in call order
    fm_all          \* fetch_all_papers: all_papers

fm_vars == << fm_pc, fm_fetchers, fm_idx, fm_results, fm_all >>

\* The summarizer.
VARIABLES
    sm_pc,          \* "new" before create_summarizer, then "ready"
    sm_config,      \* SUMMARIZER_MODE, the SDKs importable, the API key present
    sm_engine,      \* the class create_summarizer returned
    sm_ret          \* the last summarize call and what it gave

sm_vars == << sm_pc, sm_config, sm_engine, sm_ret >>

\* Two processes in the persist step at the same time.
VARIABLES
    cw_pc,          \* each process's position in store_papers
    cw_seed,        \* each process's string-hash seed
    cw_item,        \* the item both processes selected
    cw_pending,     \* each session's flushed, uncommitted Paper rows
    cw_lock,        \* the connection holding the store's write lock, 0 if none
    cw_raised       \* mark_as_seen raised in that process

cw_vars == << cw_pc, cw_seed, cw_item, cw_pending, cw_lock, cw_raised >>

\* The posts table and the maintenance call.
VARIABLES
    post_rows,      \* table posts
    item_rows,      \* table post_items
    cl_ret          \* the last cleanup_database call: its argument, the tables
                    \* before it and the cutoffs it computed

po_vars == << post_rows, item_rows, cl_ret >>

\* The command line.
VARIABLES
    cli_pc,         \* "idle", "parsed" once parse_args returned, "exited"
    cli_args,       \* the parsed arguments
    cli_out         \* what main did and how the process ended

cli_vars == << cli_pc, cli_args, cli_out >>

\* The ranking's source component.
VARIABLES
    ss_pc,          \* "input", then "scored"
    ss_sources,     \* the source tags of the papers being ranked
    ss_scores       \* _source_score of each, in thousandths

ss_vars == << ss_pc, ss_sources, ss_scores >>

\* The arXiv fetcher's paging loop.
VARIABLES
    ax_pc,          \* "idle", "loop", "returned", "raised"
    ax_max_results, \* the max_results argument
    ax_start,       \* the next start offset
    ax_len,         \* len(papers)
    ax_starts,      \* the start offset of every batch request made
    ax_batches,     \* the number of records every batch yielded
    ax_ret          \* the number of records returned

ax_vars == << ax_pc, ax_max_results, ax_start, ax_len, ax_starts, ax_batches, ax_ret >>

\* The Google Scholar fetcher.
VARIABLES
    gs_pc,          \* "idle", then "returned"
    gs_results,     \* the search results the scholarly library yielded
    gs_max_results, \* the max_results argument
    gs_ret          \* the list fetch_papers returned

gs_vars == << gs_pc, gs_results, gs_max_results, gs_ret >>

\* The entry points and helpers checked on their own.
ops_vars == << cli_vars, ss_vars, ax_vars, gs_vars >>

\* The components of the pipeline checked on their own.
comp_vars == << tr_vars, fm_vars, sm_vars, cw_vars >>

\* The state of the components that are checked on their own.
ext_vars == << tr_vars, fm_vars, sm_vars, cw_vars, po_vars, ops_vars >>

vars == << cfg_vars, rk_vars, db_vars, led_vars, run_vars, fc_vars, ext_vars >>

\* ============================================================== the store
\* The identifier column's UNIQUE constraint: inserting a second row with
\* the same identifier fails with IntegrityError at commit.
NoUniqueConstraint(rows, identifier) == FALSE

UniqueViolation(rows, identifier) == \E r \in rows : r.identifier = identifier

\* An INTEGER PRIMARY KEY of the default SQLite store: one more than the
\* largest id in the table.
RECURSIVE MaxId(_)
MaxId(rows) ==
    IF rows = {} THEN 0
    ELSE LET r == CHOOSE x \in rows : TRUE IN Max(r.id, MaxId(rows \ {r}))

NextId(rows) == MaxId(rows) + 1

\* SeenPaperRepository.get_seen_paper: the first row with the identifier,
\* None when there is none.
GetSeenPaper(rows, identifier) ==
    IF \E r \in rows : r.identifier = identifier
    THEN Some(CHOOSE r \in rows : r.identifier = identifier
                  /\ \A q \in rows : q.identifier = identifier => r.id <= q.id)
    ELSE None

\* SeenPaperRepository.is_paper_seen
IsPaperSeen(rows, identifier) == ~IsNone(GetSeenPaper(rows, identifier))

\* SeenPaperRepository.mark_as_seen, the table afterwards: the row is added
\* and committed, or the commit fails on the constraint and is rolled back.
MarkAsSeenAddsNothing(rows, identifier, paper_id, t) == rows

MarkAsSeenRows(rows, identifier, paper_id, t) ==
    IF UniqueViolation(rows, identifier) THEN rows
    ELSE rows \cup {[id |-> NextId(rows), identifier |-> identifier,
                     paper_id |-> paper_id, seen_at |-> t]}

\* ... and its return value: the refreshed new row, or the existing one.
MarkAsSeenReturn(rows, identifier, paper_id, t) ==
    IF UniqueViolation(rows, identifier) THEN GetSeenPaper(rows, identifier)
    ELSE Some([id |-> NextId(rows), identifier |-> identifier,
               paper_id |-> paper_id, seen_at |-> t])

\* SeenPaperRepository.cleanup_old_seen: seen_at < utcnow() - days
CleanupOldSeen(rows, days, t) == {r \in rows : ~(r.seen_at < t - days)}


\* ============================================================ store_papers
\* hash(title): Python salts str hashes per process, so the value depends
\* on the title and on the process's seed.
Hash(title, seed) == << seed, title >>

\* identifier = doi or arxiv_id or f"hash_{hash(title)}", tagged with its
\* kind (a DOI, an arXiv id and a hash string never coincide).
Identifier(p, seed) ==
    IF ~IsNone(p.doi) THEN << "doi", p.doi[1] >>
    ELSE IF ~IsNone(p.arxiv_id) THEN << "arxiv_id", p.arxiv_id[1] >>
    ELSE << "hash", Hash(p.title, seed) >>

PaperRow(id, p) ==
    [id |-> id, title |-> p.title, doi |-> p.doi, arxiv_id |-> p.arxiv_id,
     source |-> p.source]

\* The loop of store_papers from paper i on, over db = [seen, papers].
\* A storage error at paper fail_at leaves the loop (the except clause
\* logs it, and close() drops what was not committed); a paper already in
\* the ledger is skipped; otherwise the Paper row is flushed and
\* mark_as_seen commits it with the SeenPaper row, or rolls both back when
\* the ledger's constraint rejects the identifier.
RECURSIVE StoreLoop(_, _, _, _, _, _)
StoreLoop(db, list, i, seed, fail_at, t) ==
    IF i > Len(list) \/ i = fail_at THEN db
    ELSE LET ident == Identifier(list[i], seed)
             pid == NextId(db.papers)
         IN  IF IsPaperSeen(db.seen, ident)
             THEN StoreLoop(db, list, i + 1, seed, fail_at, t)
             ELSE IF UniqueViolation(db.seen, ident)
             THEN StoreLoop(db, list, i + 1, seed, fail_at, t)
             ELSE StoreLoop([seen |-> MarkAsSeenRows(db.seen, ident, Some(pid), t),
                             papers |-> db.papers \cup {PaperRow(pid, list[i])}],
                            list, i + 1, seed, fail_at, t)

StoreNothing(db, list, seed, fail_at, t) == db

StorePapers(db, list, seed, fail_at, t) == StoreLoop(db, list, 1, seed, fail_at, t)

\* ======================================================== the delivery facade
\* The public methods of DiscordPoster and of DiscordFormatter.
DiscordPosterMethods ==
    {"post_papers", "post_error", "test_connection", "post_test_message"}

DiscordFormatterMethods ==
    {"format_papers_as_embeds", "format_error_embed", "format_test_embed"}

\* What the transport (webhook or bot) answers to one post.
TransportOutcomes == {"ok", "failed", "raised"}

\* DiscordPoster.post_papers / post_error: success without a transport call
\* in dry-run mode, else the transport's result; an exception becomes a
\* failure result.
FacadeSuccess(dry, outcome) == dry \/ outcome = "ok"

\* `if self.dry_run: return {...}` comes before self.poster is used: the
\* transport is called exactly when dry-run is off.
TransportAlwaysInvoked(dry) == TRUE

TransportInvoked(dry) == ~dry

\* ====================================================== run_daily_pipeline
\* The components in the order initialize_components constructs them.
FETCHER_MANAGER == 1
NORMALIZER == 2
FILTER_RANK_PIPELINE == 3
SUMMARIZER == 4
DISCORD_POSTER == 5

Has(component) == comp_init >= component

NoCalls ==
    [fetch_returned |-> 0, normalize |-> 0, process |-> 0, summarize |-> 0, store |-> 0,
     post_papers |-> 0, post_error |-> 0, post_no_papers |-> 0]

NoResult ==
    [success |-> FALSE, error |-> FALSE, papers_fetched |-> 0,
     papers_processed |-> 0, discord_success |-> FALSE, via |-> "none"]

Result(success, error, fetched, processed, discord_success, via) ==
    [success |-> success, error |-> error, papers_fetched |-> fetched,
     papers_processed |-> processed, discord_success |-> discord_success,
     via |-> via]

\* What the sources can return: an arXiv paper with an arXiv id, a news
\* item with neither DOI nor arXiv id, and a Crossref record flagged as spam.
FeedPapers ==
    {MkPaper(1, "arxiv", 2, FALSE, None, Some(1)),
     MkPaper(2, "tech_news", 1, FALSE, None, None),
     MkPaper(3, "crossref", 1, TRUE, Some(1), None)}

SeqsUpTo(S, n) == UNION {[1..k -> S] : k \in 0..n}

\* The sub-list of s at the indices in keep, in order.
RECURSIVE SubList(_, _, _)
SubList(s, keep, i) ==
    IF i > Len(s) THEN << >>
    ELSE (IF i \in keep THEN << s[i] >> ELSE << >>) \o SubList(s, keep, i + 1)

\* The summarize loop: a paper whose summarize raises is logged and
\* skipped, the others are appended in order.
RECURSIVE SummarizeLoop(_, _, _, _)
SummarizeLoop(list, raised, i, acc) ==
    IF i > Len(list) THEN acc
    ELSE IF i \in raised THEN SummarizeLoop(list, raised, i + 1, acc)
    ELSE SummarizeLoop(list, raised, i + 1, Append(acc, list[i]))


\* The constructors of initialize_components that can raise: DiscordPoster
\* raises ValueError when no posting method is available, and the bot
\* poster's constructor when the channel id is not a non-zero integer.
ConstructionMayRaise == {DISCORD_POSTER}

LedgerIdentifiers == {r.identifier : r \in seen_rows}

\* A call of run_daily_pipeline begins: by the scheduler on the bot it
\* keeps, or in a new process (--run-once) with a new bot and hash seed.
StartRun ==
    /\ pc \in {"idle", "returned", "raised"}
    /\ runs < MaxRuns
    /\ \E fresh \in BOOLEAN, seed \in 1..NumSeeds :
          /\ ~fresh => seed = hash_seed
          /\ comp_init' = IF fresh THEN 0 ELSE comp_init
          /\ hash_seed' = seed
          /\ pc' = IF fresh \/ ~Has(FETCHER_MANAGER) THEN "init" ELSE "fetch"
    /\ runs' = runs + 1
    /\ papers' = << >>
    /\ normalized' = << >>
    /\ top_papers' = << >>
    /\ sum_raised' = {}
    /\ pws' = << >>
    /\ posted' = << >>
    /\ calls' = NoCalls
    /\ store_fail' = 0
    /\ seen_at_start' = LedgerIdentifiers
    /\ result' = NoResult
    /\ UNCHANGED << cfg_vars, ext_vars, fc_vars, rk_vars, db_vars, led_vars >>

\* initialize_components, called before the try block: the components are
\* assigned in order, and a constructor's exception leaves the earlier
\* ones assigned and propagates to the caller of run_daily_pipeline.
InitializeComponents ==
    /\ pc = "init"
    /\ \E fail_at \in {0} \cup ConstructionMayRaise :
          IF fail_at = 0
          THEN comp_init' = NUM_COMPONENTS /\ pc' = "fetch"
          ELSE comp_init' = fail_at - 1 /\ pc' = "raised"
    /\ UNCHANGED << cfg_vars, ext_vars, fc_vars, rk_vars, db_vars, led_vars, runs, hash_seed, papers,
                    normalized, top_papers, sum_raised, pws, posted, calls,
                    store_fail, seen_at_start, result >>

\* Step 1: fetch_papers returns a list.
FetchReturns ==
    /\ pc = "fetch"
    /\ \E list \in SeqsUpTo(FeedPapers, MaxFetch) :
          /\ papers' = list
          /\ pc' = IF list = << >> THEN "no_papers" ELSE "normalize"
    /\ calls' = [calls EXCEPT !.fetch_returned = @ + 1]
    /\ UNCHANGED << cfg_vars, ext_vars, fc_vars, rk_vars, db_vars, led_vars, runs, comp_init, hash_seed,
                    normalized, top_papers, sum_raised, pws, posted,
                    store_fail, seen_at_start, result >>

\* Step 1: fetch_papers raises.
FetchRaises ==
    /\ pc = "fetch"
    /\ pc' = "handler"
    /\ UNCHANGED << cfg_vars, ext_vars, fc_vars, rk_vars, db_vars, led_vars, runs, comp_init, hash_seed,
                    papers, normalized, top_papers, sum_raised, pws, posted, calls,
                    store_fail, seen_at_start, result >>

\* The two `if not ...:` branches: post_embeds is looked up on the
\* DiscordPoster and format_no_papers_embed on its formatter; a missing
\* attribute raises AttributeError inside the try block.
PostNoPapers ==
    /\ pc = "no_papers"
    /\ \E outcome \in TransportOutcomes :
          IF /\ Has(DISCORD_POSTER)
             /\ "post_embeds" \in DiscordPosterMethods
             /\ "format_no_papers_embed" \in DiscordFormatterMethods
          THEN /\ calls' = [calls EXCEPT !.post_no_papers = @ + 1]
               /\ result' = Result(TRUE, FALSE, Len(papers), 0,
                                   outcome = "ok", "no_papers")
               /\ pc' = "returned"
          ELSE /\ pc' = "handler"
               /\ UNCHANGED << ops_vars, calls, result >>
    /\ UNCHANGED << cfg_vars, ext_vars, fc_vars, rk_vars, db_vars, led_vars, runs, comp_init, hash_seed,
                    papers, normalized, top_papers, sum_raised, pws, posted,
                    store_fail, seen_at_start >>

\* Step 2: normalize_papers drops the items it rejects and keeps the rest
\* in order.
Normalize ==
    /\ pc = "normalize"
    /\ IF Has(NORMALIZER)
       THEN /\ \E keep \in SUBSET (1..Len(papers)) :
                  normalized' = SubList(papers, keep, 1)
            /\ calls' = [calls EXCEPT !.normalize = @ + 1]
            /\ pc' = "process"
       ELSE /\ pc' = "handler"
            /\ UNCHANGED << ops_vars, normalized, calls >>
    /\ UNCHANGED << cfg_vars, ext_vars, fc_vars, rk_vars, db_vars, led_vars, runs, comp_init, hash_seed,
                    papers, top_papers, sum_raised, pws, posted, store_fail,
                    seen_at_start, result >>

\* Step 3: process_papers.
FilterRank ==
    /\ pc = "process"
    /\ IF Has(FILTER_RANK_PIPELINE)
       THEN /\ top_papers' = ProcessPapers(normalized, max_papers)
            /\ calls' = [calls EXCEPT !.process = @ + 1]
            /\ pc' = IF top_papers' = << >> THEN "no_papers" ELSE "summarize"
       ELSE /\ pc' = "handler"
            /\ UNCHANGED << ops_vars, top_papers, calls >>
    /\ UNCHANGED << cfg_vars, ext_vars, fc_vars, rk_vars, db_vars, led_vars, runs, comp_init, hash_seed,
                    papers, normalized, sum_raised, pws, posted, store_fail,
                    seen_at_start, result >>

\* Step 4: the summarize loop over top_papers.
Summarize ==
    /\ pc = "summarize"
    /\ \E raised \in SUBSET (1..Len(top_papers)) :
          /\ ~Has(SUMMARIZER) => raised = 1..Len(top_papers)
          /\ sum_raised' = raised
          /\ pws' = SummarizeLoop(top_papers, raised, 1, << >>)
    /\ calls' = [calls EXCEPT !.summarize = @ + Len(top_papers)]
    /\ pc' = IF pws' = << >> THEN "no_summaries" ELSE "store"
    /\ UNCHANGED << cfg_vars, ext_vars, fc_vars, rk_vars, db_vars, led_vars, runs, comp_init, hash_seed,
                    papers, normalized, top_papers, posted, store_fail,
                    seen_at_start, result >>

\* `if not papers_with_summaries:` posts the error and returns.
PostSummarizeError ==
    /\ pc = "no_summaries"
    /\ \E outcome \in TransportOutcomes :
          IF Has(DISCORD_POSTER)
          THEN /\ calls' = [calls EXCEPT !.post_error = @ + 1]
               /\ transport_used' = (transport_used \/ TransportInvoked(dry_run))
               /\ result' = Result(FALSE, TRUE, Len(papers), 0,
                                   FacadeSuccess(dry_run, outcome), "no_summaries")
               /\ pc' = "returned"
          ELSE /\ pc' = "handler"
               /\ UNCHANGED << ops_vars, calls, result, transport_used >>
    /\ UNCHANGED << cfg_vars, ext_vars, facade_ret, rk_vars, db_vars, led_vars, runs, comp_init, hash_seed,
                    papers, normalized, top_papers, sum_raised, pws, posted,
                    store_fail, seen_at_start >>

\* Step 5: store_papers(top_papers); it catches its own exceptions.
Store ==
    /\ pc = "store"
    /\ \E fail_at \in 0..Len(top_papers) :
          /\ store_fail' = fail_at
          /\ LET db == StorePapers([seen |-> seen_rows, papers |-> paper_rows],
                                   top_papers, hash_seed, fail_at, now)
             IN  seen_rows' = db.seen /\ paper_rows' = db.papers
    /\ calls' = [calls EXCEPT !.store = @ + 1]
    /\ pc' = "deliver"
    /\ UNCHANGED << cfg_vars, ext_vars, fc_vars, rk_vars, led_vars, now, runs, comp_init, hash_seed,
                    papers, normalized, top_papers, sum_raised, pws, posted,
                    seen_at_start, result >>

\* if discord_result.get('success'): the run's success flag after
\* post_papers returned discord_result.  (Testing the result itself, a
\* non-empty dict, would always take the success branch.)
RunSuccessByTruthiness(discord_success) == TRUE

RunSuccess(discord_success) == discord_success

\* Step 6: post_papers(papers_with_summaries) and the two returns after it.
Deliver ==
    /\ pc = "deliver"
    /\ \E outcome \in TransportOutcomes :
          IF Has(DISCORD_POSTER)
          THEN LET ok == FacadeSuccess(dry_run, outcome) IN
               /\ posted' = Append(posted, pws)
               /\ calls' = [calls EXCEPT !.post_papers = @ + 1]
               /\ transport_used' = (transport_used \/ TransportInvoked(dry_run))
               /\ result' = Result(RunSuccess(ok), ~RunSuccess(ok),
                                   Len(papers), Len(pws), ok, "deliver")
               /\ pc' = "returned"
          ELSE /\ pc' = "handler"
               /\ UNCHANGED << ops_vars, posted, calls, result, transport_used >>
    /\ UNCHANGED << cfg_vars, ext_vars, facade_ret, rk_vars, db_vars, led_vars, runs, comp_init, hash_seed,
                    papers, normalized, top_papers, sum_raised, pws, store_fail,
                    seen_at_start >>

\* `except Exception`: post_error is attempted (a failure of the attempt
\* is caught) and the failure result returned.
Handler ==
    /\ pc = "handler"
    /\ \E outcome \in TransportOutcomes :
          IF Has(DISCORD_POSTER)
          THEN /\ calls' = [calls EXCEPT !.post_error = @ + 1]
               /\ transport_used' = (transport_used \/ TransportInvoked(dry_run))
               /\ result' = Result(FALSE, TRUE, 0, 0,
                                   FacadeSuccess(dry_run, outcome), "handler")
          ELSE /\ calls' = calls
               /\ transport_used' = transport_used
               /\ result' = Result(FALSE, TRUE, 0, 0, FALSE, "handler")
    /\ pc' = "returned"
    /\ UNCHANGED << cfg_vars, ext_vars, facade_ret, rk_vars, db_vars, led_vars, runs, comp_init, hash_seed,
                    papers, normalized, top_papers, sum_raised, pws, posted,
                    store_fail, seen_at_start >>

\* A direct call of DiscordPoster.post_test_message (--test-discord) on a
\* constructed facade, between runs.
PostTestMessage ==
    /\ pc \in {"returned"}
    /\ Has(DISCORD_POSTER)
    /\ \E outcome \in TransportOutcomes :
          facade_ret' = [op |-> "post_test_message",
                         success |-> FacadeSuccess(dry_run, outcome)]
    /\ transport_used' = (transport_used \/ TransportInvoked(dry_run))
    /\ UNCHANGED << cfg_vars, ext_vars, rk_vars, db_vars, led_vars, run_vars >>

\* A direct call of DiscordPoster.test_connection (--test-discord,
\* test_all_connections): True in dry-run mode, else the transport's answer,
\* False when the transport raises.
TestConnection ==
    /\ pc \in {"returned"}
    /\ Has(DISCORD_POSTER)
    /\ \E outcome \in TransportOutcomes :
          facade_ret' = [op |-> "test_connection",
                         success |-> FacadeSuccess(dry_run, outcome)]
    /\ transport_used' = (transport_used \/ TransportInvoked(dry_run))
    /\ UNCHANGED << cfg_vars, ext_vars, rk_vars, db_vars, led_vars, run_vars >>

InitFacade ==
    /\ transport_used = FALSE
    /\ facade_ret = [op |-> "none", success |-> FALSE]

\* ================================================== the webhook transport
\* rate_limit_delay = 1.0 second, in ticks of half a second.
RATE_LIMIT_DELAY == 2

\* max_embeds_per_message
MAX_EMBEDS_PER_MESSAGE == 10

\* What the endpoint answers to one request: a status code, or the request
\* fails with a requests.RequestException.
WebhookResponses == {"204", "429", "500", "network_error"}

\* _wait_for_rate_limit: sleeps until rate_limit_delay has passed since
\* last_request_time; the time at which it returns, which it stores.
WaitForRateLimit(t, last) == IF t - last < RATE_LIMIT_DELAY THEN last + RATE_LIMIT_DELAY ELSE t

\* batch = embeds[i:i + max_embeds_per_message]
Batch(embeds, i) == SubSeq(embeds, i + 1, Min(i + MAX_EMBEDS_PER_MESSAGE, Len(embeds)))

\* all_success = all(r.get('success', False) for r in results)
AllSuccess(results) == \A k \in 1..Len(results) : results[k]

\* The smallest gap between consecutive requests once a request goes out at t.
GapAfter(min_gap, prev_req, t) ==
    IF IsNone(prev_req) THEN min_gap
    ELSE IF IsNone(min_gap) THEN Some(t - prev_req[1])
    ELSE Some(Min(min_gap[1], t - prev_req[1]))

\* Whether _post_embed_batch may call itself once more at this depth, or
\* the interpreter raises RecursionError.
CanRecurse(depth) == depth + 1 < RecursionLimit

\* post_embeds is called with n embeds.
WhPostEmbeds ==
    /\ method = "webhook"
    /\ wh_pc = "idle"
    /\ wh_clock < MaxClock
    /\ \E n \in 0..MaxEmbeds :
          /\ wh_embeds' = [k \in 1..n |-> k]
          /\ IF n = 0
             THEN /\ wh_ret' = [op |-> "post_embeds", success |-> FALSE, aborted |-> FALSE]
                  /\ wh_pc' = "idle"
             ELSE /\ wh_ret' = [op |-> "none", success |-> FALSE, aborted |-> FALSE]
                  /\ wh_pc' = "send"
    /\ wh_i' = 0
    /\ wh_depth' = 0
    /\ wh_sends' = 0
    /\ wh_results' = << >>
    /\ wh_sent' = << >>
    /\ UNCHANGED << ops_vars, cfg_vars, rk_vars, db_vars, led_vars, run_vars, fc_vars, fm_vars, sm_vars, cw_vars, po_vars, method,
                    wh_clock, wh_last, wh_prev_req, wh_min_gap, bot_vars >>

\* One execution of _post_embed_batch's body for the current batch, with
\* what post_embeds does when it returns: the rate-limit wait, the request
\* and its answer; on 429 the sleep and the recursive call (the next
\* execution), otherwise the result is appended, the loop waits for the
\* rate limit again and goes to the next batch or aggregates and returns.
\* A RecursionError is not a RequestException: it reaches the
\* `except Exception` of post_embeds, which returns a failure.
WhSendBatch ==
    /\ method = "webhook"
    /\ wh_pc = "send"
    /\ \E response \in WebhookResponses, latency \in 0..1, retry_after \in 0..1 :
          LET sent_at == WaitForRateLimit(wh_clock, wh_last)
              answered == sent_at + latency
          IN  /\ wh_prev_req' = Some(sent_at)
              /\ wh_min_gap' = GapAfter(wh_min_gap, wh_prev_req, sent_at)
              /\ wh_sends' = IF wh_depth = 0 THEN 1 ELSE wh_sends + 1
              /\ wh_sent' = IF wh_depth = 0 THEN Append(wh_sent, Batch(wh_embeds, wh_i))
                            ELSE wh_sent
              /\ IF response = "429"
                 THEN /\ wh_clock' = answered + retry_after
                      /\ wh_last' = sent_at
                      /\ UNCHANGED << ops_vars, wh_i, wh_results >>
                      /\ IF CanRecurse(wh_depth)
                         THEN /\ wh_depth' = wh_depth + 1
                              /\ UNCHANGED << ops_vars, wh_pc, wh_ret >>
                         ELSE /\ wh_depth' = 0
                              /\ wh_pc' = "idle"
                              /\ wh_ret' = [op |-> "post_embeds", success |-> FALSE,
                                            aborted |-> TRUE]
                 ELSE LET results == Append(wh_results, response = "204")
                          waited == WaitForRateLimit(answered, sent_at)
                      IN  /\ retry_after = 0
                          /\ wh_results' = results
                          /\ wh_clock' = waited
                          /\ wh_last' = waited
                          /\ wh_i' = wh_i + MAX_EMBEDS_PER_MESSAGE
                          /\ wh_depth' = 0
                          /\ IF wh_i' < Len(wh_embeds)
                             THEN UNCHANGED << ops_vars, wh_pc, wh_ret >>
                             ELSE /\ wh_pc' = "idle"
                                  /\ wh_ret' = [op |-> "post_embeds",
                                                success |-> AllSuccess(results),
                                                aborted |-> FALSE]
    /\ UNCHANGED << ops_vars, cfg_vars, rk_vars, db_vars, led_vars, run_vars, fc_vars, fm_vars, sm_vars, cw_vars, po_vars, method,
                    wh_embeds, bot_vars >>

\* DiscordWebhookPoster.test_connection: one request, sent at once.
WhTestConnection ==
    /\ method = "webhook"
    /\ wh_pc = "idle"
    /\ wh_clock < MaxClock
    /\ \E response \in WebhookResponses, latency \in 0..1 :
          /\ wh_prev_req' = Some(wh_clock)
          /\ wh_min_gap' = GapAfter(wh_min_gap, wh_prev_req, wh_clock)
          /\ wh_clock' = wh_clock + latency
          /\ wh_ret' = [op |-> "test_connection", success |-> response = "204",
                        aborted |-> FALSE]
    /\ UNCHANGED << ops_vars, cfg_vars, rk_vars, db_vars, led_vars, run_vars, fc_vars, fm_vars, sm_vars, cw_vars, po_vars, method,
                    wh_pc, wh_last, wh_embeds, wh_i, wh_depth, wh_sends, wh_results,
                    wh_sent, bot_vars >>

\* Time passes between two calls.
WhTick ==
    /\ method = "webhook"
    /\ wh_pc = "idle"
    /\ wh_clock < MaxClock
    /\ wh_clock' = wh_clock + 1
    /\ UNCHANGED << ops_vars, cfg_vars, rk_vars, db_vars, led_vars, run_vars, fc_vars, fm_vars, sm_vars, cw_vars, po_vars, method,
                    wh_pc, wh_last, wh_embeds, wh_i, wh_depth, wh_sends, wh_results,
                    wh_sent, wh_prev_req, wh_min_gap, wh_ret, bot_vars >>

InitWebhook ==
    /\ wh_pc = "idle"
    /\ wh_clock = RATE_LIMIT_DELAY
    /\ wh_last = 0
    /\ wh_embeds = << >>
    /\ wh_i = 0
    /\ wh_depth = 0
    /\ wh_sends = 0
    /\ wh_results = << >>
    /\ wh_sent = << >>
    /\ wh_prev_req = None
    /\ wh_min_gap = None
    /\ wh_ret = [op |-> "none", success |-> FALSE, aborted |-> FALSE]

\* ====================================================== the bot transport
\* How one post_embeds_async call goes.
BotOutcomes == {"login_error", "ready_timeout", "channel_not_found", "send_error", "sent"}

\* The client after login() and connect() returned: connected, or, for a
\* client that was closed before, possibly still closed.
ClientAfterConnect(client) == IF client = "closed" THEN {"open", "closed"} ELSE {"open"}

\* finally: `if self.client.is_closed(): await self.client.close()`.
ClientAfterFinally(client) == IF client = "closed" THEN "closed" ELSE client

\* DiscordBotPoster.post_embeds_async with n embeds.
BotPostEmbeds ==
    /\ method = "bot"
    /\ \E n \in 0..MaxBotEmbeds, outcome \in BotOutcomes, connected \in {"open", "closed"} :
          IF n = 0
          THEN /\ bot_ret' = [op |-> "post_embeds_async", outcome |-> "no_embeds",
                              success |-> FALSE, messages |-> 0]
               /\ UNCHANGED << ops_vars, bot_client, bot_ready >>
          ELSE LET skip_login == bot_client = "open" /\ bot_ready
                   failed_login == ~skip_login /\ outcome = "login_error"
                   client == IF skip_login \/ failed_login THEN bot_client ELSE connected
                   ready == bot_ready \/ (~failed_login /\ client = "open"
                                            /\ outcome # "ready_timeout")
               IN  /\ ~skip_login => connected \in ClientAfterConnect(bot_client)
                   /\ skip_login => (connected = "open" /\ outcome \notin {"login_error", "ready_timeout"})
                   /\ (~skip_login /\ ~failed_login /\ client = "closed" /\ ~bot_ready)
                         => outcome = "ready_timeout"
                   /\ bot_client' = ClientAfterFinally(client)
                   /\ bot_ready' = ready
                   /\ bot_ret' = [op |-> "post_embeds_async", outcome |-> outcome,
                                  success |-> outcome = "sent",
                                  messages |-> IF outcome = "sent"
                                               THEN (n + MAX_EMBEDS_PER_MESSAGE - 1)
                                                        \div MAX_EMBEDS_PER_MESSAGE
                                               ELSE 0]
    /\ UNCHANGED << ops_vars, cfg_vars, rk_vars, db_vars, led_vars, run_vars, fc_vars, fm_vars, sm_vars, cw_vars, po_vars, method, wh_vars >>

\* DiscordBotPoster.test_connection: login, get_channel, close.
BotTestConnection ==
    /\ method = "bot"
    /\ \E outcome \in {"login_error", "channel_not_found", "found"} :
          /\ bot_client' = IF outcome = "login_error" THEN bot_client ELSE "closed"
          /\ bot_ret' = [op |-> "test_connection", outcome |-> outcome,
                         success |-> outcome = "found", messages |-> 0]
    /\ UNCHANGED << ops_vars, cfg_vars, rk_vars, db_vars, led_vars, run_vars, fc_vars, fm_vars, sm_vars, cw_vars, po_vars, method,
                    wh_vars, bot_ready >>

InitBot ==
    /\ bot_client = "new"
    /\ bot_ready = FALSE
    /\ bot_ret = [op |-> "none", outcome |-> "none", success |-> FALSE, messages |-> 0]

\* DiscordPoster.__init__ chooses the webhook when a URL is configured, else
\* the bot.
InitTransport ==
    /\ InitWebhook
    /\ InitBot

InitRun ==
    /\ pc = "idle"
    /\ runs = 0
    /\ comp_init = 0
    /\ hash_seed = 1
    /\ papers = << >>
    /\ normalized = << >>
    /\ top_papers = << >>
    /\ sum_raised = {}
    /\ pws = << >>
    /\ posted = << >>
    /\ calls = NoCalls
    /\ store_fail = 0
    /\ seen_at_start = {}
    /\ result = NoResult

InitDb ==
    /\ seen_rows = {}
    /\ paper_rows = {}
    /\ now = 0

InitLedger ==
    /\ led_marks = 0
    /\ led_ret = [op |-> "none", identifier |-> << >>, before |-> {},
                  ret_row |-> None, ret_bool |-> FALSE, raised |-> FALSE]

InitRank ==
    /\ rk_pc = "idle"
    /\ rk_papers = << >>
    /\ rk_result = << >>

\* ===================================================== the fetcher manager
\* The keys of fetcher_factories in insertion order.
Registration == << "arxiv", "crossref", "google_scholar", "nasa", "tech_news" >>

\* The names of a registration list that are in the set keep, in order.
RECURSIVE Registered(_, _)
Registered(names, keep) ==
    IF names = << >> THEN << >>
    ELSE (IF Head(names) \in keep THEN << Head(names) >> ELSE << >>)
             \o Registered(Tail(names), keep)

\* `except Exception: ... continue`: where the loop goes after a fetcher
\* raised at position idx of n fetchers.
AbortAfterRaise(idx, n) == n + 1

AfterRaise(idx, n) == idx + 1

\* The papers one fetch_papers call returns: k records of that source.
SourcePapers(name, k) == [j \in 1..k |-> << name, j >>]

\* _initialize_fetchers: a fetcher is registered when its module imported,
\* its factory did not raise and is_enabled() is true.
FmInitialize ==
    /\ fm_pc = "new"
    /\ \E keep \in SUBSET Range(Registration) :
          fm_fetchers' = Registered(Registration, keep)
    /\ fm_pc' = "idle"
    /\ UNCHANGED << ops_vars, cfg_vars, rk_vars, db_vars, led_vars, run_vars, fc_vars, tr_vars, sm_vars, cw_vars, po_vars,
                    fm_idx, fm_results, fm_all >>

\* fetch_all_papers is called.
FmFetchAll ==
    /\ fm_pc \in {"idle", "returned"}
    /\ fm_pc' = "loop"
    /\ fm_idx' = 1
    /\ fm_results' = << >>
    /\ fm_all' = << >>
    /\ UNCHANGED << ops_vars, cfg_vars, rk_vars, db_vars, led_vars, run_vars, fc_vars, tr_vars, sm_vars, cw_vars, po_vars,
                    fm_fetchers >>

\* One iteration of the loop: fetch_papers of the next fetcher returns a
\* list, which extends all_papers, or raises, which is logged.
FmFetchOne ==
    /\ fm_pc = "loop"
    /\ fm_idx <= Len(fm_fetchers)
    /\ \E raised \in BOOLEAN, k \in 0..MaxPerSource :
          LET name == fm_fetchers[fm_idx]
              got == SourcePapers(name, k)
          IN  /\ raised => k = 0
              /\ fm_results' = Append(fm_results,
                                      [name |-> name, raised |-> raised, papers |-> got])
              /\ fm_all' = IF raised THEN fm_all ELSE fm_all \o got
              /\ fm_idx' = IF raised THEN AfterRaise(fm_idx, Len(fm_fetchers))
                           ELSE fm_idx + 1
    /\ UNCHANGED << ops_vars, cfg_vars, rk_vars, db_vars, led_vars, run_vars, fc_vars, tr_vars, sm_vars, cw_vars, po_vars,
                    fm_pc, fm_fetchers >>

\* The loop is over: return all_papers.
FmReturn ==
    /\ fm_pc = "loop"
    /\ fm_idx > Len(fm_fetchers)
    /\ fm_pc' = "returned"
    /\ UNCHANGED << ops_vars, cfg_vars, rk_vars, db_vars, led_vars, run_vars, fc_vars, tr_vars, sm_vars, cw_vars, po_vars,
                    fm_fetchers, fm_idx, fm_results, fm_all >>

InitFetchers ==
    /\ fm_pc = "new"
    /\ fm_fetchers = << >>
    /\ fm_idx = 1
    /\ fm_results = << >>
    /\ fm_all = << >>

\* ========================================================= the summarizer
Providers == {"openai", "anthropic"}

\* OpenAISummarizer.__init__ / AnthropicSummarizer.__init__ raise
\* ImportError without the SDK and ValueError without the API key.
ConstructorRaises(sdk, key) == ~sdk \/ ~key

\* SummarizerFactory.create_summarizer: the class of the instance returned.
CreateSummarizer(config) ==
    IF config.mode \in Providers /\ config.sdk[config.mode]
    THEN IF ConstructorRaises(config.sdk[config.mode], config.key[config.mode])
         THEN "rule_based"
         ELSE config.mode
    ELSE "rule_based"

\* A provider's answer, line by line: a line that starts with the summary
\* prefix or with the TL;DR prefix, followed by rest units of text, a line
\* of plain text, or a blank line.
ContentLines ==
    {[kind |-> k, rest |-> r] : k \in {"summary", "tldr"}, r \in 0..1}
        \cup {[kind |-> "text", rest |-> 1], [kind |-> "blank", rest |-> 0]}

\* The line scan of _parse_openai_response / _parse_anthropic_response:
\* how much text ends up in summary and in tldr.
RECURSIVE ScanLines(_, _, _, _)
ScanLines(lines, section, summary, tldr) ==
    IF lines = << >> THEN [summary |-> summary, tldr |-> tldr]
    ELSE LET line == Head(lines) IN
         IF line.kind = "summary"
         THEN ScanLines(Tail(lines), "summary", line.rest, tldr)
         ELSE IF line.kind = "tldr"
         THEN ScanLines(Tail(lines), "tldr", summary, line.rest)
         ELSE IF section = "summary" /\ line.kind = "text"
         THEN ScanLines(Tail(lines), section, summary + line.rest, tldr)
         ELSE IF section = "tldr" /\ line.kind = "text"
         THEN ScanLines(Tail(lines), section, summary, tldr + line.rest)
         ELSE ScanLines(Tail(lines), section, summary, tldr)

\* The text of the lines from..to, prefixes not counted (_clean_text
\* removes them from whatever the parser kept).
RECURSIVE TextOf(_, _, _)
TextOf(lines, from, to) ==
    IF from > to THEN 0 ELSE lines[from].rest + TextOf(lines, from + 1, to)

\* The positions of the lines that hold the TL;DR marker.
Markers(lines) == {k \in 1..Len(lines) : lines[k].kind = "tldr"}

\* The parser with its two fallbacks, followed by _validate_summary: the
\* amount of text in the summary and in the TL;DR it returns.
ParseResponse(lines) ==
    LET scan == ScanLines(lines, "none", 0, 0) IN
    IF scan.summary = 0 \/ scan.tldr = 0
    THEN IF Cardinality(Markers(lines)) = 1
         THEN LET k == CHOOSE m \in Markers(lines) : TRUE
              IN  [summary |-> TextOf(lines, 1, k - 1),
                   tldr |-> TextOf(lines, k, Len(lines))]
         ELSE [summary |-> TextOf(lines, 1, Len(lines)), tldr |-> 1]
    ELSE scan

\* The rule-based template: opening, title, the clauses found in the
\* abstract, result or closing sentence, source sentence; and the TL;DR.
TemplateSummary(clauses) == [summary |-> 4 + clauses, tldr |-> 1]

\* _create_fallback_summary: the fixed pair.
FallbackSummary == [summary |-> 1, tldr |-> 1]

\* `except Exception` around the rule-based construction.
RuleBasedCatchesNothing(raised) == FALSE

RuleBasedCatches(raised) == raised

\* RuleBasedSummarizer.summarize: the template, or the fallback pair when
\* the construction raised (an abstract of None makes it raise).
RuleBasedSummarize(abstract_ok, clauses) ==
    IF abstract_ok
    THEN [raised |-> FALSE, by |-> "rule_based", text |-> TemplateSummary(clauses)]
    ELSE IF RuleBasedCatches(TRUE)
    THEN [raised |-> FALSE, by |-> "fallback", text |-> FallbackSummary]
    ELSE [raised |-> TRUE, by |-> "none", text |-> [summary |-> 0, tldr |-> 0]]

\* summarize of the created instance: the provider call and its parsed
\* answer, with delegation to the rule-based engine when the call raises.
Summarize_(engine, provider_raises, lines, abstract_ok, clauses) ==
    IF engine \in Providers /\ ~provider_raises
    THEN [raised |-> FALSE, by |-> "provider", text |-> ParseResponse(lines)]
    ELSE RuleBasedSummarize(abstract_ok, clauses)

\* create_summarizer(config)
SmCreate ==
    /\ sm_pc = "new"
    /\ \E mode \in Providers \cup {"rule_based", "other"},
          sdk \in [Providers -> BOOLEAN], key \in [Providers -> BOOLEAN] :
          LET config == [mode |-> mode, sdk |-> sdk, key |-> key]
          IN  /\ sm_config' = config
              /\ sm_engine' = CreateSummarizer(config)
    /\ sm_pc' = "ready"
    /\ UNCHANGED << ops_vars, cfg_vars, rk_vars, db_vars, led_vars, run_vars, fc_vars, tr_vars,
                    fm_vars, cw_vars, po_vars, sm_ret >>

\* summarizer.summarize(paper)
SmSummarize ==
    /\ sm_pc = "ready"
    /\ \E provider_raises \in BOOLEAN, lines \in SeqsUpTo(ContentLines, MaxLines),
          abstract_ok \in BOOLEAN, clauses \in 0..1 :
          /\ sm_engine \notin Providers => (~provider_raises /\ lines = << >>)
          /\ provider_raises => lines = << >>
          /\ ~abstract_ok => clauses = 0
          /\ sm_ret' = [op |-> "summarize", provider_raised |-> provider_raises,
                        got |-> Summarize_(sm_engine, provider_raises, lines,
                                           abstract_ok, clauses)]
    /\ UNCHANGED << ops_vars, cfg_vars, rk_vars, db_vars, led_vars, run_vars, fc_vars, tr_vars,
                    fm_vars, cw_vars, po_vars, sm_pc, sm_config, sm_engine >>

InitSummarizer ==
    /\ sm_pc = "new"
    /\ sm_config = [mode |-> "rule_based", sdk |-> [p \in Providers |-> FALSE],
                    key |-> [p \in Providers |-> FALSE]]
    /\ sm_engine = "none"
    /\ sm_ret = [op |-> "none", provider_raised |-> FALSE,
                 got |-> [raised |-> FALSE, by |-> "none",
                          text |-> [summary |-> 0, tldr |-> 0]]]

\* ============================================ two processes persisting
Workers == 1..2

\* Neither process has entered store_papers.
InitWorkers ==
    /\ cw_pc = [w \in Workers |-> "idle"]
    /\ cw_seed = [w \in Workers |-> 1]
    /\ cw_item = MkPaper("t1", "arxiv", 1, FALSE, None, None)
    /\ cw_pending = [w \in Workers |-> {}]
    /\ cw_lock = 0
    /\ cw_raised = [w \in Workers |-> FALSE]

\* ============================================== posts and maintenance
NoCleanup ==
    [op |-> "none", days |-> 0, seen |-> {}, papers |-> {}, posts |-> {},
     seen_cutoff |-> 0, post_cutoff |-> 0]

InitPosts ==
    /\ post_rows = {}
    /\ item_rows = {}
    /\ cl_ret = NoCleanup

\* ======================================================== the command line
NoArgs == [init_db |-> FALSE, cleanup_db |-> None, logs |-> FALSE, command |-> "none"]

NoOutcome ==
    [init_db |-> FALSE, cleanup |-> None, logs |-> FALSE, bot |-> FALSE,
     command |-> "none", exit |-> "running"]

InitCli ==
    /\ cli_pc = "idle"
    /\ cli_args = NoArgs
    /\ cli_out = NoOutcome

\* No source tag has been scored.
InitSources ==
    /\ ss_pc = "input"
    /\ ss_sources = << >>
    /\ ss_scores = << >>

\* fetch_papers has not been called.
InitArxiv ==
    /\ ax_pc = "idle"
    /\ ax_max_results = 0
    /\ ax_start = 0
    /\ ax_len = 0
    /\ ax_starts = << >>
    /\ ax_batches = << >>
    /\ ax_ret = 0

\* fetch_papers has not been called.
InitScholar ==
    /\ gs_pc = "idle"
    /\ gs_results = << >>
    /\ gs_max_results = 0
    /\ gs_ret = << >>

\* The entry points and helpers, before any of their operations.
InitOps ==
    /\ InitScholar
    /\ InitArxiv
    /\ InitSources
    /\ InitCli

\* The components checked on their own, before any of their operations.
InitExt ==
    /\ method = "webhook"
    /\ InitTransport
    /\ InitFetchers
    /\ InitSummarizer
    /\ InitWorkers
    /\ InitPosts
    /\ InitOps

\* The pipeline: successive runs against one store.
Init ==
    /\ max_papers \in 1..MaxCap
    /\ dry_run \in BOOLEAN
    /\ InitRank
    /\ InitDb
    /\ InitLedger
    /\ InitRun
    /\ InitFacade
    /\ InitExt

Next ==
    \/ StartRun
    \/ InitializeComponents
    \/ FetchReturns
    \/ FetchRaises
    \/ PostNoPapers
    \/ Normalize
    \/ FilterRank
    \/ Summarize
    \/ PostSummarizeError
    \/ Store
    \/ Deliver
    \/ Handler
    \/ PostTestMessage
    \/ TestConnection

Spec == Init /\ [][Next]_vars


\* ===================================================== process_papers alone
RankVariants == [source : {"arxiv", "tech_news"}, kw : 1..2, spam : BOOLEAN]

\* Input lists: the paper at position i has title i, so no two papers of
\* a list are equal.
RankInput(v) ==
    [i \in 1..Len(v) |-> MkPaper(i, v[i].source, v[i].kw, v[i].spam, None, None)]

InitRankInput ==
    /\ rk_pc = "input"
    /\ \E k \in 0..MaxLen : \E v \in [1..k -> RankVariants] :
          rk_papers = RankInput(v)
    /\ rk_result = << >>

RankProcess ==
    /\ rk_pc = "input"
    /\ rk_result' = ProcessPapers(rk_papers, max_papers)
    /\ rk_pc' = "done"
    /\ UNCHANGED << cfg_vars, ext_vars, fc_vars, rk_papers, db_vars, led_vars, run_vars >>

RankInit ==
    /\ max_papers \in 1..MaxCap
    /\ dry_run = FALSE
    /\ InitRankInput
    /\ InitDb
    /\ InitLedger
    /\ InitRun
    /\ InitFacade
    /\ InitExt

RankNext == RankProcess

SpecRank == RankInit /\ [][RankNext]_vars

\* ======================================================= the ledger alone
LedgerIds == {<< "doi", i >> : i \in 1..NumIds}

\* What db.commit() raises in mark_as_seen: IntegrityError when the insert
\* breaks the UNIQUE constraint, nothing otherwise.
CommitError(rows, identifier) ==
    IF UniqueViolation(rows, identifier) THEN "IntegrityError" ELSE "none"

\* The exception classes mark_as_seen's except clause catches.
MarkAsSeenCaught == {"IntegrityError"}

\* mark_as_seen raises what the commit raised and its handler did not catch.
MarkAsSeenRaises(rows, identifier) ==
    CommitError(rows, identifier) \notin (MarkAsSeenCaught \cup {"none"})

LedgerMark ==
    /\ led_marks < MaxMarks
    /\ \E identifier \in LedgerIds :
          /\ seen_rows' = MarkAsSeenRows(seen_rows, identifier, None, now)
          /\ led_ret' = [op |-> "mark_as_seen", identifier |-> identifier,
                         before |-> seen_rows,
                         ret_row |-> MarkAsSeenReturn(seen_rows, identifier, None, now),
                         ret_bool |-> FALSE,
                         raised |-> MarkAsSeenRaises(seen_rows, identifier)]
    /\ led_marks' = led_marks + 1
    /\ UNCHANGED << cfg_vars, ext_vars, fc_vars, rk_vars, paper_rows, now, run_vars >>

LedgerIsSeen ==
    /\ \E identifier \in LedgerIds :
          led_ret' = [op |-> "is_paper_seen", identifier |-> identifier,
                      before |-> seen_rows, ret_row |-> None,
                      ret_bool |-> IsPaperSeen(seen_rows, identifier),
                      raised |-> FALSE]
    /\ UNCHANGED << cfg_vars, ext_vars, fc_vars, rk_vars, db_vars, led_marks, run_vars >>

LedgerCleanup ==
    /\ \E days \in 0..MaxTime :
          /\ seen_rows' = CleanupOldSeen(seen_rows, days, now)
          /\ led_ret' = [op |-> "cleanup_old_seen", identifier |-> << >>,
                         before |-> seen_rows, ret_row |-> None,
                         ret_bool |-> FALSE, raised |-> FALSE]
    /\ UNCHANGED << cfg_vars, ext_vars, fc_vars, rk_vars, paper_rows, now, led_marks, run_vars >>

Tick ==
    /\ now < MaxTime
    /\ now' = now + 1
    /\ UNCHANGED << cfg_vars, ext_vars, fc_vars, rk_vars, seen_rows, paper_rows, led_vars, run_vars >>

LedgerInit ==
    /\ max_papers = 1
    /\ dry_run = FALSE
    /\ InitRank
    /\ InitDb
    /\ InitLedger
    /\ InitRun
    /\ InitFacade
    /\ InitExt

LedgerNext ==
    \/ LedgerMark
    \/ LedgerIsSeen
    \/ LedgerCleanup
    \/ Tick

SpecLedger == LedgerInit /\ [][LedgerNext]_vars


\* ===================================================== the transports alone
TransportInit ==
    /\ max_papers = 1
    /\ dry_run = FALSE
    /\ method \in {"webhook", "bot"}
    /\ InitRank
    /\ InitDb
    /\ InitLedger
    /\ InitRun
    /\ InitFacade
    /\ InitTransport
    /\ InitFetchers
    /\ InitSummarizer
    /\ InitWorkers
    /\ InitPosts
    /\ InitOps

TransportNext ==
    \/ WhPostEmbeds
    \/ WhSendBatch
    \/ WhTestConnection
    \/ WhTick
    \/ BotPostEmbeds
    \/ BotTestConnection

SpecTransport == TransportInit /\ [][TransportNext]_vars


\* ================================================ the fetcher manager alone
FetchInit ==
    /\ max_papers = 1
    /\ dry_run = FALSE
    /\ InitRank
    /\ InitDb
    /\ InitLedger
    /\ InitRun
    /\ InitFacade
    /\ InitExt

FetchNext ==
    \/ FmInitialize
    \/ FmFetchAll
    \/ FmFetchOne
    \/ FmReturn

SpecFetch == FetchInit /\ [][FetchNext]_vars

\* ====================================================== the summarizer alone
SummarizeInit ==
    /\ max_papers = 1
    /\ dry_run = FALSE
    /\ InitRank
    /\ InitDb
    /\ InitLedger
    /\ InitRun
    /\ InitFacade
    /\ InitExt

SummarizeNext ==
    \/ SmCreate
    \/ SmSummarize

SpecSummarize == SummarizeInit /\ [][SummarizeNext]_vars

\* ================================== store_papers in two processes at once
\* Each process runs store_papers([item]) on its own session against the
\* same store. The default store is a SQLite file: a session's first
\* INSERT takes the file's write lock and keeps it until the session
\* commits or rolls back, and another connection's write waits for it.

\* db.rollback(): the session's flushed rows are discarded.
RolledBack(pending) == {}

\* Both processes selected the same item; each has its own hash seed.
CwStart ==
    /\ \A w \in Workers : cw_pc[w] = "idle"
    /\ \E source \in {"arxiv", "tech_news"}, doi \in {None, Some(1)},
          arxiv_id \in {None, Some(1)} :
          cw_item' = MkPaper("t1", source, 1, FALSE, doi, arxiv_id)
    /\ cw_seed' \in [Workers -> 1..NumSeeds]
    /\ cw_pc' = [w \in Workers |-> "check"]
    /\ UNCHANGED << ops_vars, cfg_vars, rk_vars, db_vars, led_vars, run_vars, fc_vars, tr_vars,
                    fm_vars, sm_vars, po_vars, cw_pending, cw_lock, cw_raised >>

\* identifier = ...; if is_paper_seen(db, identifier): continue
CwCheck(w) ==
    /\ cw_pc[w] = "check"
    /\ cw_pc' = [cw_pc EXCEPT ![w] =
                    IF IsPaperSeen(seen_rows, Identifier(cw_item, cw_seed[w]))
                    THEN "done" ELSE "flush"]
    /\ UNCHANGED << ops_vars, cfg_vars, rk_vars, db_vars, led_vars, run_vars, fc_vars, tr_vars,
                    fm_vars, sm_vars, po_vars, cw_seed, cw_item, cw_pending, cw_lock, cw_raised >>

\* db.add(paper_row); db.flush()
CwFlush(w) ==
    /\ cw_pc[w] = "flush"
    /\ cw_lock \in {0, w}
    /\ cw_lock' = w
    /\ cw_pending' = [cw_pending EXCEPT ![w] = {PaperRow(NextId(paper_rows), cw_item)}]
    /\ cw_pc' = [cw_pc EXCEPT ![w] = "mark"]
    /\ UNCHANGED << ops_vars, cfg_vars, rk_vars, db_vars, led_vars, run_vars, fc_vars, tr_vars,
                    fm_vars, sm_vars, po_vars, cw_seed, cw_item, cw_raised >>

\* SeenPaperRepository.mark_as_seen(db, seen_data), then the end of the
\* loop, the final commit and close.
CwMark(w) ==
    /\ cw_pc[w] = "mark"
    /\ LET ident == Identifier(cw_item, cw_seed[w])
           row == CHOOSE r \in cw_pending[w] : TRUE
       IN  /\ seen_rows' = MarkAsSeenRows(seen_rows, ident, Some(row.id), now)
           /\ paper_rows' = paper_rows \cup
                               (IF CommitError(seen_rows, ident) = "none"
                                THEN cw_pending[w]
                                ELSE RolledBack(cw_pending[w]))
           /\ cw_raised' = [cw_raised EXCEPT ![w] = MarkAsSeenRaises(seen_rows, ident)]
    /\ cw_pending' = [cw_pending EXCEPT ![w] = {}]
    /\ cw_lock' = 0
    /\ cw_pc' = [cw_pc EXCEPT ![w] = "done"]
    /\ UNCHANGED << ops_vars, cfg_vars, rk_vars, led_vars, run_vars, fc_vars, tr_vars,
                    fm_vars, sm_vars, po_vars, now, cw_seed, cw_item >>

ConcurrentInit ==
    /\ max_papers = 1
    /\ dry_run = FALSE
    /\ InitRank
    /\ InitDb
    /\ InitLedger
    /\ InitRun
    /\ InitFacade
    /\ InitExt

CwChecks == \E w \in Workers : CwCheck(w)
CwFlushes == \E w \in Workers : CwFlush(w)
CwMarks == \E w \in Workers : CwMark(w)

ConcurrentNext ==
    \/ CwStart
    \/ CwChecks
    \/ CwFlushes
    \/ CwMarks

SpecConcurrent == ConcurrentInit /\ [][ConcurrentNext]_vars

\* ======================================================= cleanup_database
PostStatuses == {"pending", "success", "failed", "partial"}

\* Post.status == "failed" in the filter of the delete.
AnyStatus(status) == TRUE

FailedStatus(status) == status = "failed"

\* db.query(Post).filter(and_(Post.run_date < cutoff,
\*                            Post.status == "failed")).delete()
\* A bulk delete: the rows of post_items are not touched, and the default
\* SQLite store does not enforce their foreign key.
CleanupFailedPosts(rows, cutoff) ==
    {r \in rows : ~(r.run_date < cutoff /\ FailedStatus(r.status))}

\* The PostItem rows create_post adds for paper_ids: ids from the table's
\* next id on, positions from 0.
PostItems(items, post_id, paper_ids) ==
    {[id |-> NextId(items) + i - 1, post_id |-> post_id, paper_id |-> paper_ids[i],
      position |-> i - 1] : i \in 1..Len(paper_ids)}

\* PostRepository.create_post(db, channel_id, paper_ids): a pending Post
\* row dated utcnow() and one PostItem row per paper id.
CreatePost ==
    /\ Cardinality(post_rows) < MaxPosts
    /\ \E k \in 0..(MaxItems - Cardinality(item_rows)) :
          LET paper_ids == [i \in 1..k |-> i]
              post_id == NextId(post_rows)
          IN  /\ post_rows' = post_rows \cup
                      {[id |-> post_id, run_date |-> now, status |-> "pending"]}
              /\ item_rows' = item_rows \cup PostItems(item_rows, post_id, paper_ids)
    /\ cl_ret' = NoCleanup
    /\ UNCHANGED << ops_vars, cfg_vars, rk_vars, db_vars, led_vars, run_vars, fc_vars, tr_vars,
                    fm_vars, sm_vars, cw_vars >>

\* PostRepository.update_post_status(db, post_id, status)
UpdatePostStatus ==
    /\ \E post_id \in 1..MaxPosts, status \in PostStatuses \ {"pending"} :
          post_rows' = {IF r.id = post_id THEN [r EXCEPT !.status = status] ELSE r :
                          r \in post_rows}
    /\ cl_ret' = NoCleanup
    /\ UNCHANGED << ops_vars, cfg_vars, rk_vars, db_vars, led_vars, run_vars, fc_vars, tr_vars,
                    fm_vars, sm_vars, cw_vars, item_rows >>

\* store_papers([item]) with no storage error.
StoreOne ==
    /\ Cardinality(paper_rows) < MaxStored
    /\ \E i \in 1..NumIds :
          LET db == StorePapers([seen |-> seen_rows, papers |-> paper_rows],
                                << MkPaper("t1", "arxiv", 1, FALSE, Some(i), None) >>,
                                hash_seed, 0, now)
          IN  seen_rows' = db.seen /\ paper_rows' = db.papers
    /\ cl_ret' = NoCleanup
    /\ UNCHANGED << ops_vars, cfg_vars, rk_vars, led_vars, run_vars, fc_vars, tr_vars,
                    fm_vars, sm_vars, cw_vars, item_rows, now, post_rows >>

\* cleanup_database(days): cleanup_old_seen reads the clock and deletes,
\* then the posts' cutoff is computed from a second reading of the clock.
CleanupDatabase ==
    /\ \E days \in 0..MaxDays, later \in now..Min(now + 1, MaxCleanupTime) :
          /\ seen_rows' = CleanupOldSeen(seen_rows, days, now)
          /\ post_rows' = CleanupFailedPosts(post_rows, later - days)
          /\ now' = later
          /\ cl_ret' = [op |-> "cleanup", days |-> days, seen |-> seen_rows,
                        papers |-> paper_rows, posts |-> post_rows,
                        seen_cutoff |-> now - days, post_cutoff |-> later - days]
    /\ UNCHANGED << ops_vars, cfg_vars, rk_vars, led_vars, run_vars, fc_vars, tr_vars,
                    fm_vars, sm_vars, cw_vars, item_rows, paper_rows >>

\* Time passes.
ClTick ==
    /\ now < MaxCleanupTime
    /\ now' = now + 1
    /\ cl_ret' = NoCleanup
    /\ UNCHANGED << ops_vars, cfg_vars, rk_vars, led_vars, run_vars, fc_vars, tr_vars,
                    fm_vars, sm_vars, cw_vars, item_rows, seen_rows, paper_rows, post_rows >>

CleanupInit ==
    /\ max_papers = 1
    /\ dry_run = FALSE
    /\ InitRank
    /\ InitDb
    /\ InitLedger
    /\ InitRun
    /\ InitFacade
    /\ InitExt

CleanupNext ==
    \/ CreatePost
    \/ UpdatePostStatus
    \/ StoreOne
    \/ CleanupDatabase
    \/ ClTick

SpecCleanup == CleanupInit /\ [][CleanupNext]_vars

\* ================================================================== main
\* The commands main dispatches on once the bot exists; "none" starts the
\* scheduler.
Commands == {"status", "test_connections", "test_discord", "test_fetcher",
             "run_once", "none"}

\* `if x:` on an Optional[int]: None and 0 are false.
Truthy(x) == ~IsNone(x) /\ x[1] # 0

\* main() after parse_args: the special commands in their order, then the
\* construction of the bot and the dispatch. bot_ok: LLMNewsBot() did not
\* raise; run_ok: the command did not raise and, for --run-once, the
\* result's success was true.
MainOutcome(args, bot_ok, run_ok) ==
    IF args.init_db
    THEN [NoOutcome EXCEPT !.init_db = TRUE, !.exit = "0"]
    ELSE IF Truthy(args.cleanup_db)
    THEN [NoOutcome EXCEPT !.cleanup = args.cleanup_db, !.exit = "0"]
    ELSE IF args.logs
    THEN [NoOutcome EXCEPT !.logs = TRUE, !.exit = "0"]
    ELSE IF ~bot_ok
    THEN [NoOutcome EXCEPT !.exit = "1"]
    ELSE [NoOutcome EXCEPT !.bot = TRUE, !.command = args.command,
                           !.exit = IF args.command = "none" THEN "running"
                                    ELSE IF run_ok THEN "0" ELSE "1"]

\* args = parser.parse_args()
CliInvoke ==
    /\ cli_pc = "idle"
    /\ \E init_db \in BOOLEAN, logs \in BOOLEAN, command \in Commands,
          cleanup_db \in {None} \cup {Some(d) : d \in (0 - 1)..MaxDays} :
          cli_args' = [init_db |-> init_db, cleanup_db |-> cleanup_db,
                       logs |-> logs, command |-> command]
    /\ cli_pc' = "parsed"
    /\ UNCHANGED << gs_vars, ax_vars, ss_vars, cfg_vars, rk_vars, db_vars, led_vars, run_vars, fc_vars, comp_vars,
                    po_vars, cli_out >>

\* The rest of main(); cleanup_database(days=args.cleanup_db) works on the
\* store when that branch is taken.
CliMain ==
    /\ cli_pc = "parsed"
    /\ \E bot_ok \in BOOLEAN, run_ok \in BOOLEAN :
          LET out == MainOutcome(cli_args, bot_ok, run_ok) IN
          /\ cli_out' = out
          /\ IF IsNone(out.cleanup)
             THEN UNCHANGED << seen_rows, post_rows, cl_ret >>
             ELSE /\ seen_rows' = CleanupOldSeen(seen_rows, out.cleanup[1], now)
                  /\ post_rows' = CleanupFailedPosts(post_rows, now - out.cleanup[1])
                  /\ cl_ret' = [op |-> "cleanup", days |-> out.cleanup[1],
                                seen |-> seen_rows, papers |-> paper_rows,
                                posts |-> post_rows,
                                seen_cutoff |-> now - out.cleanup[1],
                                post_cutoff |-> now - out.cleanup[1]]
    /\ cli_pc' = "exited"
    /\ UNCHANGED << gs_vars, ax_vars, ss_vars, cfg_vars, rk_vars, paper_rows, now, led_vars, run_vars, fc_vars,
                    comp_vars, item_rows, cli_args >>

CliInit ==
    /\ max_papers = 1
    /\ dry_run = FALSE
    /\ InitRank
    /\ InitDb
    /\ InitLedger
    /\ InitRun
    /\ InitFacade
    /\ InitExt

CliNext ==
    \/ CliInvoke
    \/ CliMain
    \/ StoreOne
    \/ ClTick

SpecCli == CliInit /\ [][CliNext]_vars

\* ====================================================== filter_papers alone
\* Ages in days of published_at around the 30-day cutoff, None for no date.
FilterAges == {None, Some(0), Some(DATE_CUTOFF_DAYS), Some(DATE_CUTOFF_DAYS + 1)}

FilterVariants ==
    [source : {"arxiv", "tech_news"}, kw : 0..1, published : FilterAges,
     tz_aware : BOOLEAN]

\* The paper at position i has title i. The arXiv fetcher parses the
\* feed's "...Z" timestamps into aware datetimes, and normalisation passes
\* a datetime through as it is.
FilterInput(v) ==
    [i \in 1..Len(v) |->
        [MkPaper(i, v[i].source, v[i].kw, FALSE, None, None)
            EXCEPT !.published = v[i].published,
                   !.tz_aware = v[i].tz_aware /\ ~IsNone(v[i].published)]]

InitFilterInput ==
    /\ rk_pc = "input"
    /\ \E k \in 0..MaxFilterLen : \E v \in [1..k -> FilterVariants] :
          rk_papers = FilterInput(v)
    /\ rk_result = << >>

\* ContentFilter.filter_papers(papers)
RunFilter ==
    /\ rk_pc = "input"
    /\ rk_result' = FilterPapers(rk_papers)
    /\ rk_pc' = "filtered"
    /\ UNCHANGED << cfg_vars, ext_vars, fc_vars, rk_papers, db_vars, led_vars, run_vars >>

FilterInit ==
    /\ max_papers = 1
    /\ dry_run = FALSE
    /\ InitFilterInput
    /\ InitDb
    /\ InitLedger
    /\ InitRun
    /\ InitFacade
    /\ InitExt

FilterNext == RunFilter

SpecFilter == FilterInit /\ [][FilterNext]_vars

\* ====================================================== _source_score alone
\* Spellings of the source tag.
SourceSpellings ==
    {"arxiv", "arXiv", "ArXiv", "crossref", "Crossref", "CrossRef", "biorxiv",
     "bioRxiv", "medrxiv", "medRxiv", "MedRxiv", "tech_news", "nasa",
     "google_scholar"}

\* The source tags of a batch handed to the ranker.
SsInput ==
    /\ ss_pc = "input"
    /\ ss_sources = << >>
    /\ \E k \in 1..MaxSources : ss_sources' \in [1..k -> SourceSpellings]
    /\ UNCHANGED << gs_vars, ax_vars, cfg_vars, rk_vars, db_vars, led_vars, run_vars, fc_vars, comp_vars,
                    po_vars, cli_vars, ss_pc, ss_scores >>

\* self._source_score(paper.source) for each paper of the batch
SsScore ==
    /\ ss_pc = "input"
    /\ ss_sources # << >>
    /\ ss_scores' = [i \in 1..Len(ss_sources) |-> SourceScore(ss_sources[i])]
    /\ ss_pc' = "scored"
    /\ UNCHANGED << gs_vars, ax_vars, cfg_vars, rk_vars, db_vars, led_vars, run_vars, fc_vars, comp_vars,
                    po_vars, cli_vars, ss_sources >>

SourceInit ==
    /\ max_papers = 1
    /\ dry_run = FALSE
    /\ InitRank
    /\ InitDb
    /\ InitLedger
    /\ InitRun
    /\ InitFacade
    /\ InitExt

SourceNext ==
    \/ SsInput
    \/ SsScore

SpecSource == SourceInit /\ [][SourceNext]_vars

\* ================================================= ArxivFetcher.fetch_papers
\* The max_results arguments tried: around 0, around the batch size and
\* its multiples, and beyond the safety limit.
MaxResultsTried ==
    0..3 \cup {ARXIV_PER_REQUEST + d : d \in {0 - 1, 0, 1}}
         \cup {2 * ARXIV_PER_REQUEST + d : d \in {0 - 1, 0, 1}}
         \cup {ARXIV_SAFETY_LIMIT + d : d \in {0 - 1, 0, 1}}
         \cup {2 * ARXIV_SAFETY_LIMIT}

PerRequest(max_results) == Min(max_results, ARXIV_PER_REQUEST)

\* while len(papers) < max_results and start < 500
LoopWithoutSafety(len, max_results, start) == len < max_results

LoopContinues(len, max_results, start) ==
    len < max_results /\ start < ARXIV_SAFETY_LIMIT

\* The numbers of records a batch of per_request can yield.
BatchSizes(per_request) == {0, 1, per_request - 1, per_request} \cap 0..per_request

\* papers[:max_results]
Returned(len, max_results) == Min(len, max_results)

\* fetch_papers(keywords, categories, hours_back, max_results) up to the
\* loop's first test.
AxCall ==
    /\ ax_pc = "idle"
    /\ \E max_results \in MaxResultsTried :
          /\ ax_max_results' = max_results
          /\ ax_pc' = IF LoopContinues(0, max_results, 0) THEN "loop" ELSE "returned"
    /\ ax_ret' = 0
    /\ UNCHANGED << gs_vars, cfg_vars, rk_vars, db_vars, led_vars, run_vars, fc_vars, comp_vars,
                    po_vars, cli_vars, ss_vars, ax_start, ax_len, ax_starts, ax_batches >>

\* One turn of the loop: _fetch_batch(query, start, per_request), which
\* raises on a network error, the two breaks, and the loop's next test;
\* the return when the loop is left.
AxBatch ==
    /\ ax_pc = "loop"
    /\ ax_starts' = Append(ax_starts, ax_start)
    /\ \E network_error \in BOOLEAN :
          IF network_error
          THEN /\ ax_pc' = "raised"
               /\ UNCHANGED << ax_start, ax_len, ax_batches, ax_ret >>
          ELSE \E b \in BatchSizes(PerRequest(ax_max_results)) :
               LET per_request == PerRequest(ax_max_results)
                   len == ax_len + b
                   start == IF b = 0 THEN ax_start ELSE ax_start + per_request
                   goes_on == /\ b # 0
                              /\ ~(b < per_request)
                              /\ LoopContinues(len, ax_max_results, start)
               IN  /\ ax_batches' = Append(ax_batches, b)
                   /\ ax_len' = len
                   /\ ax_start' = start
                   /\ ax_pc' = IF goes_on THEN "loop" ELSE "returned"
                   /\ ax_ret' = IF goes_on THEN ax_ret
                                ELSE Returned(len, ax_max_results)
    /\ UNCHANGED << gs_vars, cfg_vars, rk_vars, db_vars, led_vars, run_vars, fc_vars, comp_vars,
                    po_vars, cli_vars, ss_vars, ax_max_results >>

ArxivInit ==
    /\ max_papers = 1
    /\ dry_run = FALSE
    /\ InitRank
    /\ InitDb
    /\ InitLedger
    /\ InitRun
    /\ InitFacade
    /\ InitExt

ArxivNext ==
    \/ AxCall
    \/ AxBatch

SpecArxiv == ArxivInit /\ [][ArxivNext]_vars

\* ========================================= GoogleScholarFetcher.fetch_papers
\* The fields of the PaperMetadata dataclass: the keyword arguments its
\* generated constructor accepts.
PaperMetadataFields ==
    {"title", "authors", "abstract", "url", "source", "doi", "arxiv_id",
     "published_at", "categories", "tags"}

\* The keyword arguments _parse_scholar_result passes to PaperMetadata.
ScholarKeywords ==
    {"title", "authors", "abstract", "url", "source", "published_at",
     "categories", "tags", "metadata"}

\* A dataclass constructor raises TypeError on a keyword argument that is
\* not one of its fields.
DataclassRaises(keywords) == ~(keywords \subseteq PaperMetadataFields)

\* A search hit: title 0 is the empty title; year is None, or tells
\* whether January 1st of the year lies within hours_back.
ScholarResults ==
    [title : 0..1, year : {None, Some("recent"), Some("old")}, venue : 1..1,
     citations : 0..1]

\* The hit at position i has title i unless its title is empty.
ScholarInput(v) ==
    [i \in 1..Len(v) |-> [v[i] EXCEPT !.title = IF v[i].title = 0 THEN 0 ELSE i]]

\* _parse_scholar_result: None for an empty title and when anything in
\* it raises, else the PaperMetadata built from the hit.
ParseScholarResult(hit) ==
    IF hit.title = 0 THEN None
    ELSE IF DataclassRaises(ScholarKeywords) THEN None
    ELSE Some([title |-> hit.title, source |-> "google_scholar",
               published_at |-> hit.year,
               metadata |-> [venue |-> hit.venue, citations |-> hit.citations,
                             year |-> hit.year]])

\* _is_recent_paper
IsRecentPaper(paper) ==
    IF IsNone(paper.published_at) THEN TRUE
    ELSE paper.published_at[1] = "recent"

\* The loop of fetch_papers over the results from position i on.
RECURSIVE ScholarLoop(_, _, _, _)
ScholarLoop(results, i, collected, max_results) ==
    IF i > Len(results) \/ Len(collected) >= max_results THEN collected
    ELSE LET paper == ParseScholarResult(results[i]) IN
         IF ~IsNone(paper) /\ IsRecentPaper(paper[1])
         THEN ScholarLoop(results, i + 1, Append(collected, paper[1]), max_results)
         ELSE ScholarLoop(results, i + 1, collected, max_results)

\* fetch_papers(keywords, categories, hours_back, max_results)
GsFetch ==
    /\ gs_pc = "idle"
    /\ \E k \in 0..MaxScholar, max_results \in 0..MaxScholar :
          \E v \in [1..k -> ScholarResults] :
             /\ gs_results' = ScholarInput(v)
             /\ gs_max_results' = max_results
             /\ gs_ret' = ScholarLoop(ScholarInput(v), 1, << >>, max_results)
    /\ gs_pc' = "returned"
    /\ UNCHANGED << cfg_vars, rk_vars, db_vars, led_vars, run_vars, fc_vars, comp_vars,
                    po_vars, cli_vars, ss_vars, ax_vars >>

ScholarInit ==
    /\ max_papers = 1
    /\ dry_run = FALSE
    /\ InitRank
    /\ InitDb
    /\ InitLedger
    /\ InitRun
    /\ InitFacade
    /\ InitExt

ScholarNext == GsFetch

SpecScholar == ScholarInit /\ [][ScholarNext]_vars

\* ================================================================== claims

\* C1: no paper handed to post_papers by a run has an identifier that was
\* in the seen ledger when that run started.
C1_NoRedelivery ==
    \A i \in 1..Len(posted) : \A j \in 1..Len(posted[i]) :
        Identifier(posted[i][j], hash_seed) \notin seen_at_start

\* C2: the ledger holds at most one row per identifier; mark_as_seen of an
\* identifier already present does not raise, leaves the table as it was
\* and returns the existing row; is_paper_seen answers true exactly for
\* the identifiers that have a row.
C2_LedgerUnique ==
    /\ \A r1, r2 \in seen_rows : r1.identifier = r2.identifier => r1 = r2
    /\ (led_ret.op = "mark_as_seen"
            /\ \E r \in led_ret.before : r.identifier = led_ret.identifier)
        => /\ ~led_ret.raised
           /\ seen_rows = led_ret.before
           /\ \E r \in led_ret.before :
                 r.identifier = led_ret.identifier /\ led_ret.ret_row = Some(r)
    /\ led_ret.op = "is_paper_seen"
        => (led_ret.ret_bool <=> \E r \in seen_rows : r.identifier = led_ret.identifier)

\* C2's case: mark_as_seen was called for an identifier that had a row.
C2_Witness ==
    /\ led_ret.op = "mark_as_seen"
    /\ \E r \in led_ret.before : r.identifier = led_ret.identifier
    /\ Cardinality(seen_rows) = NumIds

\* C3: a call of run_daily_pipeline never ends by propagating an
\* exception to its caller.
C3_NeverPropagates == pc # "raised"

\* C4: a run whose fetch step returned zero items posts the "no papers"
\* embed and no error embed, and returns success with both counts 0,
\* without normalizing, filtering, summarizing or persisting.
C4_EmptyFetch ==
    (pc = "returned" /\ calls.fetch_returned = 1 /\ papers = << >>)
        => /\ result.success
           /\ result.papers_fetched = 0
           /\ result.papers_processed = 0
           /\ calls.post_no_papers = 1
           /\ calls.post_error = 0
           /\ calls.normalize = 0 /\ calls.process = 0
           /\ calls.summarize = 0 /\ calls.store = 0

\* C5: a run that fetched at least one item of which none survived
\* filter/rank posts the "no papers" embed and returns success with
\* papers_processed = 0 and papers_fetched = the number fetched.
C5_EmptySelection ==
    (pc = "returned" /\ papers # << >> /\ calls.process = 1 /\ top_papers = << >>)
        => /\ result.success
           /\ result.papers_processed = 0
           /\ result.papers_fetched = Len(papers)
           /\ calls.post_no_papers = 1

\* C6: after the summarize step papers_with_summaries is the selected
\* papers whose summarize call did not raise, in selection order; when it
\* is empty the run returns success = false with papers_processed = 0,
\* having called post_error once and neither store_papers nor post_papers.
SummarizeDone == calls.summarize > 0

C6_SummarizeStep ==
    /\ SummarizeDone
        => /\ Len(pws) = Len(top_papers) - Cardinality(sum_raised)
           /\ \E f \in [1..Len(pws) -> 1..Len(top_papers)] :
                 /\ \A i \in 1..Len(pws) : f[i] \notin sum_raised /\ pws[i] = top_papers[f[i]]
                 /\ \A i, j \in 1..Len(pws) : i < j => f[i] < f[j]
    /\ (pc = "returned" /\ SummarizeDone /\ pws = << >>)
        => /\ ~result.success
           /\ result.papers_processed = 0
           /\ calls.post_error = 1
           /\ calls.store = 0
           /\ calls.post_papers = 0

\* C7: a run that reached the deliver step called post_papers once and
\* returns the success flag of post_papers' result, whatever store_papers
\* did.
C7_DeliverGated ==
    (pc = "returned" /\ calls.store = 1)
        => /\ calls.post_papers = 1
           /\ result.success = result.discord_success

\* C8 as stated: when post_papers returns a failure, the run reports the
\* failure and has also called post_error before returning.
C8_ErrorEmbedOnDeliveryFailure ==
    (pc = "returned" /\ result.via = "deliver" /\ ~result.discord_success)
        => /\ ~result.success
           /\ result.error
           /\ calls.post_error >= 1

\* C8 amended: when post_papers returns a failure, the run reports the
\* failure (success = false, with an error) in its result and returns
\* without calling post_error.
C8_DeliveryFailureReported ==
    (pc = "returned" /\ result.via = "deliver" /\ ~result.discord_success)
        => /\ ~result.success
           /\ result.error
           /\ result.papers_processed = Len(pws)
           /\ calls.post_error = 0

\* C8's case: post_papers was called and returned a failure.
C8_Witness ==
    /\ pc = "returned"
    /\ calls.post_papers = 1
    /\ result.via = "deliver"
    /\ ~result.discord_success

\* C9: when fewer than MIN_NEWS_QUOTA of the top max_papers ranked papers
\* are news items but the ranked pool holds at least MIN_NEWS_QUOTA of
\* them, the selection holds at least MIN_NEWS_QUOTA news items and at
\* most max_papers papers (stated for a cap that leaves room for the quota).
NewsCount(list) == Len(SelectSeq(list, IsNews))

C9_NewsQuota ==
    LET pool == PapersOf(RankPapers(FilterPapers(rk_papers))) IN
    (/\ rk_pc = "done"
     /\ max_papers >= MIN_NEWS_QUOTA
     /\ NewsCount(Take(pool, max_papers)) < MIN_NEWS_QUOTA
     /\ NewsCount(pool) >= MIN_NEWS_QUOTA)
        => /\ NewsCount(rk_result) >= MIN_NEWS_QUOTA
           /\ Len(rk_result) <= max_papers

\* C10: process_papers returns at most max_papers papers, each an input
\* paper that passed every filter check (none flagged as spam), ordered by
\* non-increasing score, equal scores in input order.
InputIndex(p) == CHOOSE k \in 1..Len(rk_papers) : rk_papers[k] = p

C10_Selection ==
    rk_pc = "done"
        => /\ Len(rk_result) <= max_papers
           /\ \A i \in 1..Len(rk_result) :
                 /\ \E k \in 1..Len(rk_papers) : rk_papers[k] = rk_result[i]
                 /\ ~rk_result[i].spam
                 /\ PassesQualityCheck(rk_result[i])
                 /\ PassesKeywordFilter(rk_result[i])
                 /\ PassesCategoryFilter(rk_result[i])
                 /\ PassesDateFilter(rk_result[i])
           /\ \A i, j \in 1..Len(rk_result) :
                 i < j => \/ ScoreOf(rk_result[i]) > ScoreOf(rk_result[j])
                          \/ /\ ScoreOf(rk_result[i]) = ScoreOf(rk_result[j])
                             /\ InputIndex(rk_result[i]) < InputIndex(rk_result[j])

\* C10's case: a spam paper was in the input, more papers passed the
\* filter than the cap allows, and the first two returned have different
\* scores while the input held them in the opposite order.
C10_Witness ==
    /\ rk_pc = "done"
    /\ \E k \in 1..Len(rk_papers) : rk_papers[k].spam
    /\ Len(FilterPapers(rk_papers)) > max_papers
    /\ Len(rk_result) >= 2
    /\ InputIndex(rk_result[1]) > InputIndex(rk_result[2])

\* C11: with dry-run enabled when the DiscordPoster was constructed, no
\* run and no direct post_papers, post_error, post_test_message or
\* test_connection call ever invokes the transport, and every post
\* operation made returns a success result.
C11_DryRunNoTransport ==
    dry_run =>
        /\ ~transport_used
        /\ (pc = "returned" /\ calls.post_papers + calls.post_error > 0)
              => result.discord_success
        /\ facade_ret.op # "none" => facade_ret.success

\* C11's case: in dry-run mode a run has delivered through post_papers and
\* a direct post_test_message call has been made after it.
C11_Witness ==
    /\ dry_run
    /\ calls.post_papers = 1
    /\ result.via = "deliver"
    /\ facade_ret.op = "post_test_message"

\* C17: a storage error while persisting one paper skips only that paper:
\* every other selected paper that was not in the ledger when the run
\* started, the ones after the failing paper included, has a SeenPaper row
\* and a Paper row once store_papers has returned.
C17_StorageErrorIsolated ==
    (calls.store = 1 /\ store_fail > 0)
        => \A i \in 1..Len(top_papers) :
              (i # store_fail
                 /\ Identifier(top_papers[i], hash_seed) \notin seen_at_start)
              => /\ IsPaperSeen(seen_rows, Identifier(top_papers[i], hash_seed))
                 /\ \E r \in paper_rows : r.title = top_papers[i].title

\* C12: a batch answered with HTTP 429 is retried once, so no batch is
\* sent more than twice.
C12_RetryOnce == wh_sends <= 2

\* C13: for a non-empty embed list post_embeds sends consecutive batches of
\* at most 10 embeds whose concatenation in send order is the input list,
\* returns success exactly when every batch was answered with 204, and
\* returns a result rather than raising.
RECURSIVE Concat(_)
Concat(batches) ==
    IF batches = << >> THEN << >> ELSE Head(batches) \o Concat(Tail(batches))

C13_Batching ==
    (wh_pc = "idle" /\ wh_ret.op = "post_embeds" /\ wh_embeds # << >>)
        => /\ \A k \in 1..Len(wh_sent) :
                 Len(wh_sent[k]) \in 1..MAX_EMBEDS_PER_MESSAGE
           /\ Concat(wh_sent) = wh_embeds
           /\ wh_ret.success <=> (/\ Len(wh_results) = Len(wh_sent)
                                  /\ AllSuccess(wh_results))

\* C14: on one webhook transport any two consecutive outbound requests are
\* at least rate_limit_delay (1.0 second) apart.
C14_RequestSpacing == ~IsNone(wh_min_gap) => wh_min_gap[1] >= RATE_LIMIT_DELAY

\* C15: whatever the outcome of a bot send (sent, ready-wait timeout,
\* channel not found, error while sending), the client's connection is
\* closed when post_embeds_async has returned.
C15_BotClosed ==
    (/\ bot_ret.op = "post_embeds_async"
     /\ bot_ret.outcome \in {"sent", "ready_timeout", "channel_not_found", "send_error"})
        => bot_client = "closed"

\* C16: fetch_all_papers calls every enabled fetcher once, in registration
\* order, and returns the concatenation, in that order, of what the
\* fetchers that did not raise returned; a fetcher that raises contributes
\* nothing and stops neither the later calls nor the return.
RECURSIVE ReturnedPapers(_)
ReturnedPapers(results) ==
    IF results = << >> THEN << >>
    ELSE (IF Head(results).raised THEN << >> ELSE Head(results).papers)
             \o ReturnedPapers(Tail(results))

C16_FetchAll ==
    /\ \A i, j \in 1..Len(fm_fetchers) :
          i < j => \E a, b \in 1..Len(Registration) :
                      a < b /\ Registration[a] = fm_fetchers[i]
                            /\ Registration[b] = fm_fetchers[j]
    /\ fm_pc = "returned"
          => /\ Len(fm_results) = Len(fm_fetchers)
             /\ \A i \in 1..Len(fm_fetchers) : fm_results[i].name = fm_fetchers[i]
             /\ fm_all = ReturnedPapers(fm_results)

\* C16's case: all five fetchers are enabled, one raised, and a later one
\* returned papers.
C16_Witness ==
    /\ fm_pc = "returned"
    /\ Len(fm_fetchers) = Len(Registration)
    /\ \E i, j \in 1..Len(fm_results) :
          i < j /\ fm_results[i].raised /\ fm_results[j].papers # << >>

SeenRowsOfItem ==
    {r \in seen_rows : \E w \in Workers : r.identifier = Identifier(cw_item, cw_seed[w])}

\* The Paper rows of the item.
PaperRowsOfItem ==
    {r \in paper_rows : r.title = cw_item.title /\ r.doi = cw_item.doi
                           /\ r.arxiv_id = cw_item.arxiv_id}

\* C19: when two processes have run the persist step at the same time over
\* the same unseen item, the store holds exactly one SeenPaper row and at
\* most one Paper row for the item, and neither persist step failed.
C19_ConcurrentPersist ==
    (\A w \in Workers : cw_pc[w] = "done")
        => /\ Cardinality(SeenRowsOfItem) = 1
           /\ Cardinality(PaperRowsOfItem) <= 1
           /\ \A w \in Workers : ~cw_raised[w]

\* C20: cleanup_database(days) deletes exactly the SeenPaper rows whose
\* seen_at is before the cutoff and the failed Post rows whose run_date is
\* before the cutoff; every Paper row, every Post with another status and
\* every row not older than the cutoff stays as it was.
C20_CleanupExact ==
    cl_ret.op = "cleanup"
        => /\ seen_rows \subseteq cl_ret.seen
           /\ \A r \in cl_ret.seen :
                 r \notin seen_rows <=> r.seen_at < cl_ret.seen_cutoff
           /\ post_rows \subseteq cl_ret.posts
           /\ \A r \in cl_ret.posts :
                 r \notin post_rows
                     <=> (r.status = "failed" /\ r.run_date < cl_ret.post_cutoff)
           /\ paper_rows = cl_ret.papers

\* C20's case: a cleanup that deleted an old SeenPaper row and an old
\* failed Post while the Paper rows were there to be kept.
C20_Witness ==
    /\ cl_ret.op = "cleanup"
    /\ \E r \in cl_ret.seen : r \notin seen_rows
    /\ \E r \in cl_ret.posts : r \notin post_rows
    /\ paper_rows # {}

\* C21: for every integer DAYS, 0 included, main with --cleanup-db DAYS
\* (and no --init-db before it) calls cleanup_database(DAYS) and returns
\* with exit status 0, without constructing the bot, running a command or
\* starting the scheduler.
C21_CleanupDbAnyDays ==
    (cli_pc = "exited" /\ ~IsNone(cli_args.cleanup_db) /\ ~cli_args.init_db)
        => /\ cli_out.cleanup = cli_args.cleanup_db
           /\ cli_out.exit = "0"
           /\ ~cli_out.bot
           /\ cli_out.command = "none"

\* What C22 says filter_papers keeps: a paper that passes the quality,
\* keyword and category checks and has no published date or one at most
\* 30 days old.
KeptByDate(p) ==
    /\ PassesQualityCheck(p) /\ PassesKeywordFilter(p) /\ PassesCategoryFilter(p)
    /\ (IsNone(p.published) \/ p.published[1] <= DATE_CUTOFF_DAYS)

\* C22: filter_papers returns exactly those papers, in their order,
\* whatever the source and whether published_at is aware or naive.
C22_DateFilter ==
    rk_pc = "filtered" => rk_result = SelectSeq(rk_papers, KeptByDate)

\* The weight C23 gives a source tag, read without regard to case.
ClaimedWeight(source) ==
    IF source \in {"arxiv", "arXiv", "ArXiv"} THEN 800
    ELSE IF source \in {"biorxiv", "bioRxiv"} THEN 700
    ELSE IF source \in {"medrxiv", "medRxiv", "MedRxiv"} THEN 700
    ELSE IF source \in {"crossref", "Crossref", "CrossRef"} THEN 600
    ELSE 500

\* C23: for every spelling of the source tag the source component is 0.8
\* for arxiv, 0.7 for biorxiv and medrxiv, 0.6 for crossref and 0.5 for any
\* other source.
C23_SourceWeights ==
    ss_pc = "scored"
        => \A i \in 1..Len(ss_sources) : ss_scores[i] = ClaimedWeight(ss_sources[i])

\* C24: the arXiv fetch_papers loop makes at most 5 batch requests, each
\* at a start offset below 500; it stops at the first batch that yields
\* fewer records than were requested, so every batch before the last one
\* was full; and it returns at most max_results records.
C24_ArxivLoop ==
    /\ Len(ax_starts) <= 5
    /\ \A i \in 1..Len(ax_starts) : ax_starts[i] < 500
    /\ \A i \in 1..Len(ax_batches) :
          ax_batches[i] < PerRequest(ax_max_results)
              => (i = Len(ax_batches) /\ ax_pc = "returned")
    /\ ax_pc = "loop" => Len(ax_starts) < 5
    /\ ax_pc = "returned" => ax_ret <= ax_max_results

\* C24's case: five full batches, after which the safety limit ends the
\* loop with fewer records than max_results.
C24_Witness ==
    /\ ax_pc = "returned"
    /\ Len(ax_batches) = 5
    /\ ax_ret = 500
    /\ ax_ret < ax_max_results

\* A search hit C25 says is accepted: a non-empty title and a date that
\* passes the recency check.
ScholarAccepted(hit) ==
    hit.title # 0 /\ (IsNone(hit.year) \/ hit.year[1] = "recent")

\* The record C25 says is built from a hit.
ScholarRecord(hit) ==
    [title |-> hit.title, source |-> "google_scholar",
     published_at |-> hit.year,
     metadata |-> [venue |-> hit.venue, citations |-> hit.citations,
                   year |-> hit.year]]

\* C25: the output of the Google Scholar fetch_papers holds, in order, one
\* record for each accepted search hit, with venue, citation count and
\* year in its metadata map, up to max_results records.
C25_ScholarRecords ==
    gs_pc = "returned"
        => LET accepted == SelectSeq(gs_results, ScholarAccepted)
               n == Min(Len(accepted), gs_max_results)
           IN  gs_ret = [i \in 1..n |-> ScholarRecord(accepted[i])]

\* C26: for an item with neither DOI nor arXiv id the identifier depends on
\* the title alone: two processes that selected the item compute the same
\* identifier, so the one that checks the ledger after the other has
\* persisted the item finds it there.
C26_IdentifierOfTitle ==
    (/\ \A w \in Workers : cw_pc[w] # "idle"
     /\ IsNone(cw_item.doi) /\ IsNone(cw_item.arxiv_id))
        => /\ \A v, w \in Workers :
                 Identifier(cw_item, cw_seed[v]) = Identifier(cw_item, cw_seed[w])
           /\ \A v, w \in Workers :
                 (cw_pc[v] = "done" /\ cw_pc[w] = "check")
                     => IsPaperSeen(seen_rows, Identifier(cw_item, cw_seed[w]))

C28_RowsPaired ==
    /\ \A p \in paper_rows :
          Cardinality({r \in seen_rows : r.paper_id = Some(p.id)}) = 1
    /\ \A r \in seen_rows : \E p \in paper_rows : r.paper_id = Some(p.id)

\* C28's case: the second run's store_papers stored its first paper and
\* ended on a storage error at the second, after the first run had stored
\* rows of its own.
C28_Witness ==
    /\ runs = 2
    /\ calls.store = 1
    /\ store_fail = 2
    /\ Identifier(top_papers[1], hash_seed) \notin seen_at_start
    /\ seen_at_start # {}
    /\ Cardinality(paper_rows) >= 2

\* C29: after any sequence of create_post, update_post_status and
\* cleanup_database calls, every PostItem row's post_id is the id of a Post
\* row that still exists.
C29_ItemsHavePost ==
    \A it \in item_rows : \E p \in post_rows : p.id = it.post_id

\* C30: in every result run_daily_pipeline returns, on every path,
\* 0 <= papers_processed <= MAX_PAPERS_PER_DAY and
\* papers_processed <= papers_fetched.
C30_ProcessedBounds ==
    pc = "returned"
        => /\ 0 <= result.papers_processed
           /\ result.papers_processed <= max_papers
           /\ result.papers_processed <= result.papers_fetched

\* C30's case: a run that fetched more papers than the cap allows and
\* returned with as many papers processed as the cap.
C30_Witness ==
    /\ pc = "returned"
    /\ result.papers_fetched > max_papers
    /\ result.papers_processed = max_papers

=============================================================================
